---- MODULE Spec2Model ----
(***************************************************************************)
(* PARCA resolution and integrity engine: AssetResolver (install,          *)
(* resolveAll, resolveAsset), ConfigLoader, LockfileManager, CacheManager  *)
(* and WorkspaceMapper, together with the remote source repository they    *)
(* read.  Every await of the TypeScript code is a step boundary; the       *)
(* synchronous code between two awaits is one atomic step.                 *)
(*                                                                         *)
(* SHA-256 is modelled as an injective function of the bytes it is fed.    *)
(***************************************************************************)
EXTENDS Naturals, Integers, Sequences, FiniteSets, TLC

VARIABLES
    hist,        \* the source repository: its sequence of commits (fixed per behaviour)
    head,        \* index of the commit the branch 'main' points at
    configFile,  \* .parca-assets.yaml on disk
    lockFile,    \* .parca-assets.lock on disk (list of ParcaLockedAsset)
    cache,       \* ~/.parca-cache: one directory per (source, id, version)
    workspace,   \* the consumer workspace: symlinks (target -> cached path) and .gitignore
    procs,       \* the running calls of install / resolveAll and their last outcome
    nops,        \* number of calls started so far (also the clock of resolvedAt)
    forced,      \* TRUE once install has been called with forceReinstall = true
    since,       \* what the last completed call resolved, and whether the remote or the
                 \* cache changed after it completed
    selection,   \* version selection of install on its own: the declared versions, the
                 \* specifier, and what was selected
    publisher,   \* the maintainer's source repository as Publisher sees it: the manifest
                 \* object, parca-manifest.yaml on disk, HEAD, the last publish outcome
    cacheWrite,  \* the last write of CacheManager on its own: what it was given and the
                 \* hash it returned
    flow         \* the extension's installAsset command: its arguments, and the version
                 \* the Replace prompt offered

vars == <<hist, head, configFile, lockFile, cache, workspace, procs, nops, forced, since,
          selection, publisher, cacheWrite, flow>>

(***************************************************************************)
(* Bounds                                                                  *)
(***************************************************************************)
MaxOps == 2

(***************************************************************************)
(* Universe of values                                                      *)
(***************************************************************************)
Ids == {"a", "b"}
Versions == {"1.0.0", "2.0.0"}
U1 == <<"acme", "assets">>
U2 == <<"acme", "more">>
Procs == {1, 2}

\* text contents: sequences of characters, "\r" and "\n" being CR and LF
TX == <<"x">>
TY == <<"y">>
TXcrlf == <<"x", "\r", "\n">>
TXlf == <<"x", "\n">>

File(p, t) == [path |-> p, content |-> t]

NoRef == ""
CommitName == <<"c1", "c2", "c3", "c4">>
CommitIdx(ref) == CHOOSE i \in 1..Len(CommitName) : CommitName[i] = ref
IsCommitName(ref) == \E i \in 1..Len(CommitName) : CommitName[i] = ref

(***************************************************************************)
(* ParcaManifest (types.ts): assets -> kind, versions -> {ref?, path}.     *)
(* A manifest is a set of version rows, one per (asset id, version).       *)
(***************************************************************************)
MV(id, kind, v, ref, path) == [id |-> id, kind |-> kind, version |-> v, ref |-> ref, path |-> path]

manifestHasAsset(m, id) == \E r \in m : r.id = id
manifestVersions(m, id) == {r.version : r \in {x \in m : x.id = id}}
manifestKind(m, id) == (CHOOSE r \in m : r.id = id).kind
manifestHasVersion(m, id, v) == \E r \in m : r.id = id /\ r.version = v
versionMeta(m, id, v) == CHOOSE r \in m : r.id = id /\ r.version = v

\* a commit of the source repository: its manifest, its tree (path -> files under it;
\* a single file is stored under the relative path ""), and where the tag "T" points
\* while this commit is the head of main
Commit(m, tree, tag) == [manifest |-> m, tree |-> tree, tag |-> tag]

PA == "prompts/a.md"
PB == "skills/b"
Paths == {PA, PB}

Tree(fa, db) == [p \in Paths |-> IF p = PA THEN fa ELSE db]
OneFile(t) == [isDir |-> FALSE, files |-> {File("", t)}]
Dir(fs) == [isDir |-> TRUE, files |-> fs]

MRolling == {MV("a", "prompt", "1.0.0", NoRef, PA), MV("b", "skill", "1.0.0", NoRef, PB)}
MTwo == {MV("a", "prompt", "1.0.0", "c2", PA), MV("a", "prompt", "2.0.0", NoRef, PA),
         MV("b", "skill", "1.0.0", NoRef, PB)}
MTagged == {MV("a", "prompt", "1.0.0", "T", PA), MV("b", "skill", "1.0.0", NoRef, PB)}

SkillOK == Dir({File("SKILL.md", TX), File("notes.md", TY)})
SkillBad == Dir({File("notes.md", TY)})

MNoA == {MV("b", "skill", "1.0.0", NoRef, PB)}

\* H1: the rolling version 1.0.0 of "a" changes content on main, then 2.0.0 is published
\*     and 1.0.0 is checkpointed at c2; the skill "b" loses its SKILL.md at c3
H1 == << Commit(MRolling, Tree(OneFile(TX), SkillOK), 1),
         Commit(MRolling, Tree(OneFile(TY), SkillOK), 1),
         Commit(MTwo, Tree(OneFile(TY), SkillBad), 1) >>
\* H2: version 1.0.0 of "a" is pinned to the movable tag "T", which moves to a new commit
\*     whose file differs in its line endings only (c2) and then to one with other
\*     content (c3)
H2 == << Commit(MTagged, Tree(OneFile(TXlf), SkillOK), 1),
         Commit(MTagged, Tree(OneFile(TXcrlf), SkillOK), 2),
         Commit(MTagged, Tree(OneFile(TY), SkillOK), 3) >>
\* H3: the content of "a" is committed and tagged "T" at c1; the manifest declares
\*     version 1.0.0 with ref "T" only in the next commit
H3 == << Commit(MNoA, Tree(OneFile(TX), SkillOK), 1),
         Commit(MTagged, Tree(OneFile(TX), SkillOK), 1) >>
Histories == {H1, H2, H3}

(***************************************************************************)
(* GitProvider: the remote calls.  A result is a record with ok = FALSE    *)
(* when the host answers with an error (HTTP >= 400, unexpected format).   *)
(***************************************************************************)
\* index of the commit a ref names while main is at h; 0 when the host knows no such ref
RefTarget(ref, h) ==
    IF ref = "main" THEN h
    ELSE IF ref = "T" THEN hist[h].tag
    ELSE IF IsCommitName(ref) /\ CommitIdx(ref) <= h THEN CommitIdx(ref)
    ELSE 0

resolveRef(ref, h) ==
    IF RefTarget(ref, h) = 0 THEN [ok |-> FALSE, sha |-> ""]
    ELSE [ok |-> TRUE, sha |-> CommitName[RefTarget(ref, h)]]

TreeAt(path, ref, h) == hist[RefTarget(ref, h)].tree[path]

fetchFile(path, ref, h) ==
    IF RefTarget(ref, h) = 0 THEN [ok |-> FALSE, content |-> <<>>]
    ELSE LET e == TreeAt(path, ref, h)
         IN IF e.isDir \/ e.files = {} THEN [ok |-> FALSE, content |-> <<>>]
            ELSE [ok |-> TRUE, content |-> (CHOOSE f \in e.files : TRUE).content]

fetchDirectory(dirPath, ref, h) ==
    IF RefTarget(ref, h) = 0 THEN [ok |-> FALSE, files |-> {}]
    ELSE LET e == TreeAt(dirPath, ref, h)
         IN IF ~e.isDir THEN [ok |-> FALSE, files |-> {}]
            ELSE [ok |-> TRUE, files |-> e.files]

NoManifest == {}
fetchManifest(ref, h) ==
    IF RefTarget(ref, h) = 0 THEN [ok |-> FALSE, manifest |-> NoManifest]
    ELSE [ok |-> TRUE, manifest |-> hist[RefTarget(ref, h)].manifest]

(***************************************************************************)
(* CacheManager                                                            *)
(***************************************************************************)
RECURSIVE Normalize(_)
\* content.replace(/\r\n/g, '\n')
Normalize(s) ==
    IF Len(s) = 0 THEN <<>>
    ELSE IF Len(s) >= 2 /\ s[1] = "\r" /\ s[2] = "\n"
         THEN <<"\n">> \o Normalize(SubSeq(s, 3, Len(s)))
         ELSE <<s[1]>> \o Normalize(SubSeq(s, 2, Len(s)))

\* a variant of computeHashFromString that hashes the bytes as they are
computeHashFromString_raw(content) == <<"sha256">> \o content

computeHashFromString(content) == <<"sha256">> \o Normalize(content)

IdFile(id) == IF id = "a" THEN "a.md" ELSE "b.md"
toLowerCase(name) == IF name \in {"SKILL.md", "Skill.MD", "skill.md"} THEN "skill.md" ELSE name

\* rank of a path in string order (Array.sort without comparator)
PathRank(name) ==
    CASE name = "SKILL.md" -> 1
      [] name = "Skill.MD" -> 2
      [] name = "a.md" -> 3
      [] name = "b.md" -> 4
      [] name = "notes.md" -> 5
      [] name = "skill.md" -> 6
      [] OTHER -> 7

RECURSIVE HashFiles(_)
\* hash.update(relPath); hash.update(content) for every file in sorted order
HashFiles(fs) ==
    IF fs = {} THEN <<>>
    ELSE LET f == CHOOSE x \in fs : \A y \in fs : PathRank(x.path) <= PathRank(y.path)
         IN <<f.path>> \o Normalize(f.content) \o HashFiles(fs \ {f})

computeDirectoryHash(dir) == <<"sha256">> \o HashFiles(dir)

\* getAssetPath: the directory itself for a skill, <dir>/<id>.md otherwise
getAssetPath(source, id, version, kind) ==
    [key |-> <<source, id, version>>, file |-> IF kind = "skill" THEN "" ELSE IdFile(id)]

FileIn(dir, name) == {f \in dir : f.path = name}

\* computeHash of the asset path inside the cached directory dir
computeHash(dir, id, kind) ==
    IF kind = "skill" THEN computeDirectoryHash(dir)
    ELSE computeHashFromString((CHOOSE f \in FileIn(dir, IdFile(id)) : TRUE).content)

isCached(dir, id, kind, expectedSha256) ==
    IF kind = "skill"
    THEN /\ dir # {}
         /\ \E f \in dir : toLowerCase(f.path) = "skill.md"
         /\ (expectedSha256 # <<>> => computeHash(dir, id, kind) = expectedSha256)
    ELSE /\ FileIn(dir, IdFile(id)) # {}
         /\ (expectedSha256 # <<>> => computeHash(dir, id, kind) = expectedSha256)

\* the directory after writeToCache, and the hash it returns
writeToCache(dir, id, content) ==
    [dir |-> (dir \ FileIn(dir, IdFile(id))) \cup {File(IdFile(id), Normalize(content))},
     sha256 |-> computeHashFromString(Normalize(content))]

\* the array of files a payload is supplied as, in some order
Orderings(files) ==
    {seq \in [1..Cardinality(files) -> files] :
        \A i, j \in 1..Cardinality(files) : i # j => seq[i] # seq[j]}

RECURSIVE writeFiles(_, _)
\* lines 74-79: the loop writes the files in the order supplied, each one normalised
writeFiles(dir, seq) ==
    IF seq = <<>> THEN dir
    ELSE writeFiles((dir \ FileIn(dir, seq[1].path))
                       \cup {File(seq[1].path, Normalize(seq[1].content))},
                    Tail(seq))

\* a variant of writeDirectoryToCache that does not remove the existing tree first
writeDirectoryToCache_merge(dir, files) ==
    LET written == writeFiles(dir, CHOOSE seq \in Orderings(files) : TRUE)
    IN [dir |-> written, sha256 |-> computeDirectoryHash(written)]

\* lines 69-83: the existing tree is removed (line 71), the files are written, and the
\* hash returned is computeHash of the directory on disk
writeDirectoryToCache(dir, files) ==
    LET written == writeFiles({}, CHOOSE seq \in Orderings(files) : TRUE)
    IN [dir |-> written, sha256 |-> computeDirectoryHash(written)]

readFromCache(dir, id, kind) ==
    IF kind = "skill"
    THEN IF \E f \in dir : toLowerCase(f.path) = "skill.md"
         THEN (CHOOSE f \in dir : toLowerCase(f.path) = "skill.md").content
         ELSE <<>>
    ELSE IF FileIn(dir, IdFile(id)) # {}
         THEN (CHOOSE f \in FileIn(dir, IdFile(id)) : TRUE).content
         ELSE <<>>

(***************************************************************************)
(* LockfileManager                                                         *)
(***************************************************************************)
LockedAsset(id, version, source, commit, sha256, manifestHash, resolvedAt) ==
    [id |-> id, version |-> version, source |-> source, commit |-> commit,
     sha256 |-> sha256, manifestHash |-> manifestHash, resolvedAt |-> resolvedAt]

SameKey(a, id, source) == a.id = id /\ a.source = source

\* Array.find: <<the first match>>, or <<>> for undefined
findAsset(lockfile, id, source) ==
    LET hits == SelectSeq(lockfile, LAMBDA a : SameKey(a, id, source))
    IN IF hits = <<>> THEN <<>> ELSE <<hits[1]>>

\* a variant of upsertAsset that pushes the entry without filtering the old one out
upsertAsset_push(lockfile, entry) == Append(lockfile, entry)

upsertAsset(lockfile, entry) ==
    Append(SelectSeq(lockfile, LAMBDA a : ~SameKey(a, entry.id, entry.source)), entry)

\* a variant of removeAsset that filters by id alone
removeAsset_byId(lockfile, id, source) ==
    SelectSeq(lockfile, LAMBDA a : a.id # id)

removeAsset(lockfile, id, source) ==
    SelectSeq(lockfile, LAMBDA a : ~SameKey(a, id, source))

(***************************************************************************)
(* ConfigLoader                                                            *)
(***************************************************************************)
Aliases == {"acme", "src", "ghost"}
NoSource == [provider |-> "", url |-> <<>>]
Source(url) == [provider |-> "github", url |-> url]
AssetEntry(id, source, version, mapping) ==
    [id |-> id, source |-> source, version |-> version, mapping |-> mapping]

NoSources == [al \in Aliases |-> NoSource]
Config(sources, assets) == [exists |-> TRUE, sources |-> sources, assets |-> assets]
NoConfig == [exists |-> FALSE, sources |-> NoSources, assets |-> <<>>]

\* validate: every asset names a source that is defined
validate(config) ==
    \A i \in 1..Len(config.assets) : config.sources[config.assets[i].source] # NoSource

\* load: ok = FALSE when the file is missing or validate throws
load(file) ==
    IF file.exists /\ validate(file) THEN [ok |-> TRUE, config |-> file]
    ELSE [ok |-> FALSE, config |-> file]

init == Config(NoSources, <<>>)

\* parts[parts.length - 2] of the URL path; parts[0] or 'default' for shorter paths
deriveAlias(url) ==
    IF Len(url) >= 2 THEN url[Len(url) - 1]
    ELSE IF Len(url) = 1 THEN url[1] ELSE "default"

\* ensureSource: the config it returns, the alias, and the file it leaves on disk
ensureSource(file, url) ==
    LET config == IF load(file).ok THEN file ELSE init
        known == {al \in Aliases : config.sources[al].url = url}
    IN IF known # {}
       THEN [config |-> config, alias |-> CHOOSE al \in known : TRUE,
             file |-> IF load(file).ok THEN file ELSE init]
       ELSE LET updated == [config EXCEPT !.sources[deriveAlias(url)] = Source(url)]
            IN [config |-> updated, alias |-> deriveAlias(url), file |-> updated]

\* addAsset: replace the entry of the same id+source, append, save
addAsset(config, entry) ==
    [config EXCEPT !.assets =
        Append(SelectSeq(config.assets, LAMBDA a : ~(a.id = entry.id /\ a.source = entry.source)), entry)]

(***************************************************************************)
(* WorkspaceMapper                                                         *)
(***************************************************************************)
NoMapping == <<>>
getDefaultMapping(kind, assetId) ==
    CASE kind = "prompt" -> <<".github/prompts/", assetId, ".prompt.md">>
      [] kind = "instruction" -> <<".github/instructions/", assetId, ".instructions.md">>
      [] kind = "skill" -> <<".github/skills/", assetId, "/SKILL.md">>
      [] OTHER -> <<".github/prompts/", assetId, ".md">>

Link(target, cachedPath) == [target |-> target, to |-> cachedPath]

\* a variant of createSymlink that leaves .gitignore alone
createSymlink_unlisted(ws, cachedPath, mapping, succeeds) ==
    LET cleared == {l \in ws.links : l.target # mapping}
    IN IF succeeds
       THEN [links |-> cleared \cup {Link(mapping, cachedPath)}, gitignore |-> ws.gitignore]
       ELSE [links |-> cleared, gitignore |-> ws.gitignore]

\* createSymlink: the target is unlinked, then linked to the cached path and gitignored;
\* when symlinkSync throws the old link is gone and nothing else has happened
createSymlink(ws, cachedPath, mapping, succeeds) ==
    LET cleared == {l \in ws.links : l.target # mapping}
    IN IF succeeds
       THEN [links |-> cleared \cup {Link(mapping, cachedPath)},
             gitignore |-> ws.gitignore \cup {mapping}]
       ELSE [links |-> cleared, gitignore |-> ws.gitignore]

(***************************************************************************)
(* semver (external library), over the version strings of the universe     *)
(***************************************************************************)
\* the version strings a manifest may declare
VersionStrings == {"1.0.0", "2.0.0", "2.0.0-beta", "10.0.0-alpha", "nightly", "stable"}

\* new SemVer(v): <<major, minor, patch, prerelease identifiers>>, or <<>> when v is
\* not a valid SemVer string (the constructor throws)
parse(v) ==
    CASE v = "1.0.0" -> <<1, 0, 0, <<>>>>
      [] v = "2.0.0" -> <<2, 0, 0, <<>>>>
      [] v = "2.0.0-beta" -> <<2, 0, 0, <<"beta">>>>
      [] v = "10.0.0-alpha" -> <<10, 0, 0, <<"alpha">>>>
      [] OTHER -> <<>>
valid(v) == parse(v) # <<>>

\* the UTF-16 code units of a string
codeUnits(v) ==
    CASE v = "1.0.0" -> <<49, 46, 48, 46, 48>>
      [] v = "2.0.0" -> <<50, 46, 48, 46, 48>>
      [] v = "2.0.0-beta" -> <<50, 46, 48, 46, 48, 45, 98, 101, 116, 97>>
      [] v = "10.0.0-alpha" -> <<49, 48, 46, 48, 46, 48, 45, 97, 108, 112, 104, 97>>
      [] v = "nightly" -> <<110, 105, 103, 104, 116, 108, 121>>
      [] v = "stable" -> <<115, 116, 97, 98, 108, 101>>
      [] v = "alpha" -> <<97, 108, 112, 104, 97>>
      [] v = "beta" -> <<98, 101, 116, 97>>
      [] OTHER -> <<>>

RECURSIVE unitsLess(_, _)
\* a < b in the order of Array.prototype.sort without a comparator
unitsLess(a, b) ==
    IF b = <<>> THEN FALSE
    ELSE IF a = <<>> THEN TRUE
    ELSE IF a[1] # b[1] THEN a[1] < b[1]
    ELSE unitsLess(Tail(a), Tail(b))
stringLess(a, b) == unitsLess(codeUnits(a), codeUnits(b))

\* SemVer.comparePre for the prerelease lists of two versions with equal main parts:
\* a release is greater than any of its prereleases
preLess(a, b) ==
    IF a = <<>> THEN FALSE
    ELSE IF b = <<>> THEN TRUE
    ELSE stringLess(a[1], b[1])

\* semver.lt(a, b) for valid a and b
lt(a, b) ==
    LET x == parse(a)
        y == parse(b)
    IN IF x[1] # y[1] THEN x[1] < y[1]
       ELSE IF x[2] # y[2] THEN x[2] < y[2]
       ELSE IF x[3] # y[3] THEN x[3] < y[3]
       ELSE preLess(x[4], y[4])

\* Range.test: an invalid version or an invalid range satisfies nothing; "*" matches
\* no prerelease (includePrerelease is not set); any other range used is an exact version
satisfies(v, range) ==
    /\ valid(v)
    /\ IF range = "*" THEN parse(v)[4] = <<>>
       ELSE valid(range) /\ ~lt(v, range) /\ ~lt(range, v)
\* semver.maxSatisfying: <<the greatest satisfying version>>, or <<>> for null
maxSatisfying(versions, range) ==
    LET sat == {v \in versions : satisfies(v, range)}
    IN IF sat = {} THEN <<>>
       ELSE <<CHOOSE v \in sat : \A w \in sat : ~lt(v, w)>>
\* versions.sort().reverse()[0]; undefined (<<>>) for an empty list
lexMax(versions) ==
    IF versions = {} THEN <<>>
    ELSE <<CHOOSE v \in versions : \A w \in versions : ~stringLess(v, w)>>

\* install, lines 125-134: the selected version, or <<>>
selectVersion(versions, versionRange) ==
    IF versionRange = "latest"
    THEN IF maxSatisfying(versions, "*") # <<>> THEN maxSatisfying(versions, "*") ELSE lexMax(versions)
    ELSE maxSatisfying(versions, versionRange)


(***************************************************************************)
(* AssetResolver: the state of one call                                    *)
(***************************************************************************)
NoEntry == AssetEntry("", "", "", NoMapping)
NoPath == [key |-> <<>>, file |-> ""]
ResolvedAsset(id, version, source, commit, sha256, content, cachePath, mapping) ==
    [id |-> id, version |-> version, source |-> source, commit |-> commit,
     sha256 |-> sha256, content |-> content, cachePath |-> cachePath, mapping |-> mapping]
NoResolved == ResolvedAsset("", "", "", "", <<>>, <<>>, NoPath, NoMapping)
AssetError(id, error) == [id |-> id, error |-> error]

\* what the last call returned or threw, and what it reported to its progress sink
NoOut == [status |-> "none", op |-> "none", assetId |-> "", force |-> FALSE,
          error |-> "", asset |-> NoResolved, existing |-> NoEntry, selectedVersion |-> "",
          results |-> <<>>, errors |-> <<>>, fetches |-> 0,
          preConfig |-> NoConfig, preLock |-> <<>>]

IdleProc(out) ==
    [pc |-> "idle", op |-> "none", url |-> <<>>, assetId |-> "", versionRange |-> "",
     force |-> FALSE, registryCommit |-> "", manifest |-> NoManifest, manifestRef |-> "",
     allowUpdate |-> FALSE, config |-> NoConfig, lockfile0 |-> <<>>, queue |-> <<>>, idx |-> 0,
     entry |-> NoEntry, effectiveRef |-> "", commit |-> "", lockfile |-> <<>>,
     results |-> <<>>, errors |-> <<>>, fetches |-> 0,
     preConfig |-> NoConfig, preLock |-> <<>>, out |-> out]

Idle(p) == procs[p].pc = "idle"
AllIdle == \A p \in Procs : Idle(p)

OutOf(pr, status, error) ==
    [NoOut EXCEPT !.status = status, !.op = pr.op, !.assetId = pr.assetId, !.force = pr.force,
                  !.error = error, !.results = pr.results, !.errors = pr.errors,
                  !.fetches = pr.fetches, !.preConfig = pr.preConfig, !.preLock = pr.preLock]

\* the call throws
Throw(pr, error) == IdleProc(OutOf(pr, "error", error))

(***************************************************************************)
(* resolveAll: grouping and the loop over the declared assets              *)
(***************************************************************************)
RECURSIVE GroupBySource(_)
\* the Map bySource, flattened: sources in order of first appearance, and within a
\* source the assets in declaration order
GroupBySource(assets) ==
    IF assets = <<>> THEN <<>>
    ELSE SelectSeq(assets, LAMBDA a : a.source = assets[1].source)
         \o GroupBySource(SelectSeq(assets, LAMBDA a : a.source # assets[1].source))

\* lines 202-203: the manifest revision used for an asset
manifestRefFor(lockfile, asset) ==
    LET locked == findAsset(lockfile, asset.id, asset.source)
    IN IF locked # <<>> /\ locked[1].version = asset.version THEN locked[1].commit ELSE "main"

RECURSIVE NextAsset(_, _)
\* the loop of resolveAll from queue position j on: assets of an undefined source are
\* reported and skipped; the next asset suspends at fetchManifest; after the last
\* asset the call returns its results
NextAsset(pr, j) ==
    IF j > Len(pr.queue)
    THEN IdleProc(OutOf(pr, "done", ""))
    ELSE IF pr.config.sources[pr.queue[j].source] = NoSource
    THEN NextAsset([pr EXCEPT !.errors = Append(@, AssetError(pr.queue[j].id, "SourceNotDefined"))], j + 1)
    ELSE [pr EXCEPT !.pc = "r_fetchManifest", !.idx = j, !.entry = pr.queue[j],
                    !.manifestRef = manifestRefFor(pr.lockfile0, pr.queue[j]),
                    !.allowUpdate = FALSE, !.manifest = NoManifest,
                    !.effectiveRef = "", !.commit = "", !.lockfile = <<>>]

\* resolveAsset returned `resolved` to its caller
AssetDone(p, pr, resolved) ==
    IF pr.op = "install"
    THEN /\ configFile' = addAsset(pr.config, pr.entry)
         /\ procs' = [procs EXCEPT ![p] = IdleProc([OutOf(pr, "resolved", "") EXCEPT !.asset = resolved])]
    ELSE /\ configFile' = configFile
         /\ procs' = [procs EXCEPT ![p] = NextAsset([pr EXCEPT !.results = Append(@, resolved)], pr.idx + 1)]

\* a variant of AssetFailed in which install persists the entry although resolveAsset threw
AssetFailed_persist(p, pr, error) ==
    IF pr.op = "install"
    THEN /\ configFile' = addAsset(pr.config, pr.entry)
         /\ procs' = [procs EXCEPT ![p] = Throw(pr, error)]
    ELSE /\ configFile' = configFile
         /\ procs' = [procs EXCEPT ![p] =
                NextAsset([pr EXCEPT !.errors = Append(@, AssetError(pr.entry.id, error))], pr.idx + 1)]

\* a variant of AssetFailed in which resolveAll has no try/catch around an asset
AssetFailed_abort(p, pr, error) ==
    /\ configFile' = configFile
    /\ procs' = [procs EXCEPT ![p] = Throw(pr, error)]

\* a variant of AssetFailed in which resolveAll repeats the first content fetch that fails
AssetFailed_retry(p, pr, error) ==
    /\ configFile' = configFile
    /\ IF pr.op = "install"
       THEN procs' = [procs EXCEPT ![p] = Throw(pr, error)]
       ELSE IF pr.pc = "ra_fetch" /\ pr.fetches = 1
       THEN procs' = [procs EXCEPT ![p] = pr]
       ELSE procs' = [procs EXCEPT ![p] =
                NextAsset([pr EXCEPT !.errors = Append(@, AssetError(pr.entry.id, error))], pr.idx + 1)]

\* resolveAsset (or the manifest fetch before it) threw
AssetFailed(p, pr, error) ==
    /\ configFile' = configFile
    /\ IF pr.op = "install"
       THEN procs' = [procs EXCEPT ![p] = Throw(pr, error)]
       ELSE procs' = [procs EXCEPT ![p] =
                NextAsset([pr EXCEPT !.errors = Append(@, AssetError(pr.entry.id, error))], pr.idx + 1)]

\* a variant of the ref strategy that always resolves the manifest ref of the call
effectiveRef_unpinned(vm, manifestRef) == manifestRef

\* line 250: versionMeta.ref || manifestRef (an absent or empty ref is falsy)
effectiveRef(vm, manifestRef) == IF vm.ref # NoRef THEN vm.ref ELSE manifestRef

\* resolveAsset, lines 235-253: up to the await of resolveRef
EnterResolveAsset(p, pr, entry, manifest, manifestRef, allowUpdate) ==
    IF ~manifestHasAsset(manifest, entry.id)
    THEN AssetFailed(p, [pr EXCEPT !.entry = entry], "AssetNotFound")
    ELSE IF ~manifestHasVersion(manifest, entry.id, entry.version)
    THEN AssetFailed(p, [pr EXCEPT !.entry = entry], "VersionNotFound")
    ELSE LET vm == versionMeta(manifest, entry.id, entry.version)
         IN /\ configFile' = configFile
            /\ procs' = [procs EXCEPT ![p] =
                  [pr EXCEPT !.pc = "ra_resolveRef", !.entry = entry, !.manifest = manifest,
                             !.manifestRef = manifestRef, !.allowUpdate = allowUpdate,
                             !.effectiveRef = effectiveRef(vm, manifestRef)]]

CacheKey(entry) == <<entry.source, entry.id, entry.version>>

\* a variant of the gate that accepts whatever hash the fetch produced
integrityMismatch_off(locked, sha256, allowUpdate) == FALSE

\* line 316: the integrity gate
integrityMismatch(locked, sha256, allowUpdate) ==
    locked # <<>> /\ locked[1].sha256 # <<>> /\ locked[1].sha256 # sha256 /\ ~allowUpdate

\* what a call that has just returned or thrown resolved
Resolved(r) == [id |-> r.id, source |-> r.source, version |-> r.version, sha256 |-> r.sha256]
OutResolved(out) ==
    IF out.status = "resolved" THEN {Resolved(out.asset)}
    ELSE {Resolved(out.results[i]) : i \in 1..Len(out.results)}
SinceAfter(p) ==
    IF procs'[p].pc = "idle" THEN [results |-> OutResolved(procs'[p].out), changed |-> FALSE]
    ELSE since

(***************************************************************************)
(* Steps of resolveAsset                                                   *)
(***************************************************************************)
\* lines 253-282: resolveRef answers; lockfile lookup; fast path
ResolveAssetRef(p, net, symOK) ==
    LET pr == procs[p]
        e == pr.entry
        r == resolveRef(pr.effectiveRef, head)
    IN
    /\ pr.pc = "ra_resolveRef"
    /\ UNCHANGED <<hist, head, lockFile, cache, nops, forced, selection, publisher, cacheWrite, flow>>
    /\ IF ~net \/ ~r.ok
       THEN AssetFailed(p, pr, IF ~net THEN "Transport" ELSE "RefResolution") /\ UNCHANGED workspace
       ELSE LET lockfile == lockFile
                locked == findAsset(lockfile, e.id, e.source)
                kind == manifestKind(pr.manifest, e.id)
                fast == /\ locked # <<>>
                        /\ locked[1].version = e.version
                        /\ locked[1].commit = r.sha
                        /\ ~pr.allowUpdate
                        /\ isCached(cache[CacheKey(e)], e.id, kind, locked[1].sha256)
                cachedPath == getAssetPath(e.source, e.id, e.version, kind)
            IN IF fast
               THEN /\ workspace' = IF e.mapping # NoMapping
                                    THEN createSymlink(workspace, cachedPath, e.mapping, symOK)
                                    ELSE workspace
                    /\ IF e.mapping # NoMapping /\ ~symOK
                       THEN AssetFailed(p, pr, "Projection")
                       ELSE AssetDone(p, pr,
                              ResolvedAsset(e.id, e.version, e.source, r.sha, locked[1].sha256,
                                            readFromCache(cache[CacheKey(e)], e.id, kind),
                                            cachedPath, e.mapping))
               ELSE /\ symOK
                    /\ UNCHANGED <<workspace, configFile>>
                    /\ procs' = [procs EXCEPT ![p] =
                          [pr EXCEPT !.pc = "ra_fetch", !.commit = r.sha, !.lockfile = lockfile]]
    /\ since' = SinceAfter(p)

\* a variant of the skill branch that writes the directory before it looks for SKILL.md
cacheAtMissingSkill_written(dir, files) == writeDirectoryToCache(dir, files).dir

\* lines 293-296: the throw for a missing SKILL.md precedes writeDirectoryToCache (line
\* 299), so the cached directory is the one that was there
cacheAtMissingSkill(dir, files) == dir

\* lines 284-352: the content arrives; cache write, integrity gate, ledger write, symlink
ResolveAssetFetch(p, net, symOK) ==
    LET pr == procs[p]
        e == pr.entry
        kind == manifestKind(pr.manifest, e.id)
        vm == versionMeta(pr.manifest, e.id, e.version)
        counted == [pr EXCEPT !.fetches = @ + 1]
        locked == findAsset(pr.lockfile, e.id, e.source)
        dirResult == fetchDirectory(vm.path, pr.effectiveRef, head)
        fileResult == fetchFile(vm.path, pr.effectiveRef, head)
        fetched == IF kind = "skill" THEN dirResult.ok ELSE fileResult.ok
        skillFiles == {f \in dirResult.files : toLowerCase(f.path) = "skill.md"}
        cacheResult == IF kind = "skill"
                       THEN writeDirectoryToCache(cache[CacheKey(e)], dirResult.files)
                       ELSE writeToCache(cache[CacheKey(e)], e.id, fileResult.content)
        content == IF kind = "skill" THEN (CHOOSE f \in skillFiles : TRUE).content
                   ELSE fileResult.content
        sha256 == cacheResult.sha256
        cachedPath == IF kind = "skill" THEN getAssetPath(e.source, e.id, e.version, "skill")
                      ELSE getAssetPath(e.source, e.id, e.version, "prompt")
        lockedEntry == LockedAsset(e.id, e.version, e.source, pr.commit, sha256, pr.manifest, nops)
    IN
    /\ pr.pc = "ra_fetch"
    /\ UNCHANGED <<hist, head, nops, forced, selection, publisher, cacheWrite, flow>>
    /\ IF ~net \/ ~fetched
       THEN AssetFailed(p, counted, IF ~net THEN "Transport" ELSE "NotFound")
            /\ UNCHANGED <<lockFile, cache, workspace>>
       ELSE IF kind = "skill" /\ skillFiles = {}
       THEN /\ AssetFailed(p, counted, "MissingSkillEntry")
            /\ cache' = [cache EXCEPT ![CacheKey(e)] = cacheAtMissingSkill(@, dirResult.files)]
            /\ UNCHANGED <<lockFile, workspace>>
       ELSE /\ cache' = [cache EXCEPT ![CacheKey(e)] = cacheResult.dir]
            /\ IF integrityMismatch(locked, sha256, pr.allowUpdate)
               THEN AssetFailed(p, counted, "IntegrityMismatch") /\ UNCHANGED <<lockFile, workspace>>
               ELSE /\ lockFile' = upsertAsset(pr.lockfile, lockedEntry)
                    /\ workspace' = IF e.mapping # NoMapping
                                    THEN createSymlink(workspace, cachedPath, e.mapping, symOK)
                                    ELSE workspace
                    /\ IF e.mapping # NoMapping /\ ~symOK
                       THEN AssetFailed(p, counted, "Projection")
                       ELSE AssetDone(p, counted,
                              ResolvedAsset(e.id, e.version, e.source, pr.commit, sha256,
                                            content, cachedPath, e.mapping))
    /\ since' = SinceAfter(p)

(***************************************************************************)
(* install                                                                 *)
(***************************************************************************)
\* the call is made; it suspends at `await git.resolveRef('main')`
StartInstall(p, url, assetId, versionRange, forceReinstall) ==
    /\ Idle(p)
    /\ nops < MaxOps
    /\ nops' = nops + 1
    /\ forced' = (forced \/ forceReinstall)
    /\ procs' = [procs EXCEPT ![p] =
          [IdleProc(NoOut) EXCEPT !.pc = "i_resolveMain", !.op = "install", !.url = url,
                                  !.assetId = assetId, !.versionRange = versionRange,
                                  !.force = forceReinstall,
                                  !.preConfig = configFile, !.preLock = lockFile]]
    /\ UNCHANGED <<hist, head, configFile, lockFile, cache, workspace, since, selection, publisher, cacheWrite, flow>>

\* line 113: the registry commit arrives; the call suspends at fetchManifest
InstallResolveMain(p, net) ==
    LET pr == procs[p]
        r == resolveRef("main", head)
    IN
    /\ pr.pc = "i_resolveMain"
    /\ procs' = [procs EXCEPT ![p] =
          IF ~net \/ ~r.ok THEN Throw(pr, IF ~net THEN "Transport" ELSE "RefResolution")
          ELSE [pr EXCEPT !.pc = "i_fetchManifest", !.registryCommit = r.sha]]
    /\ UNCHANGED <<hist, head, configFile, lockFile, cache, workspace, nops, forced, selection, publisher, cacheWrite, flow>>
    /\ since' = SinceAfter(p)

\* lines 142-145: the conflict is reported before ensureSource runs, so the file on
\* disk is the one that was loaded
\* a variant of install that registers the source before it looks for a conflict
fileAtConflict_early(file, url) == ensureSource(file, url).file

\* lines 142-145: the declaration on disk when install returns the conflict sentinel
fileAtConflict(file, url) == file

\* lines 114-161 and 235-253: the manifest arrives; asset and version lookup, conflict
\* check, ensureSource, and resolveAsset up to its first await
InstallFetchManifest(p, net) ==
    LET pr == procs[p]
        m == fetchManifest(pr.registryCommit, head)
        manifest == m.manifest
        versions == manifestVersions(manifest, pr.assetId)
        selectedVersion == selectVersion(versions, pr.versionRange)
        loaded == load(configFile)
        existing == SelectSeq(configFile.assets, LAMBDA a : a.id = pr.assetId)
        ensured == ensureSource(configFile, pr.url)
        entry == AssetEntry(pr.assetId, ensured.alias, selectedVersion[1],
                            getDefaultMapping(manifestKind(manifest, pr.assetId), pr.assetId))
    IN
    /\ pr.pc = "i_fetchManifest"
    /\ UNCHANGED <<hist, head, lockFile, cache, workspace, nops, forced, selection, publisher, cacheWrite, flow>>
    /\ IF ~net \/ ~m.ok
       THEN procs' = [procs EXCEPT ![p] = Throw(pr, IF ~net THEN "Transport" ELSE "NotFound")]
            /\ UNCHANGED configFile
       ELSE IF ~manifestHasAsset(manifest, pr.assetId)
       THEN procs' = [procs EXCEPT ![p] = Throw(pr, "AssetNotFound")] /\ UNCHANGED configFile
       ELSE IF selectedVersion = <<>>
       THEN procs' = [procs EXCEPT ![p] = Throw(pr, "NoMatchingVersion")] /\ UNCHANGED configFile
       ELSE IF ~loaded.ok
       THEN procs' = [procs EXCEPT ![p] = Throw(pr, "ConfigNotLoaded")] /\ UNCHANGED configFile
       ELSE IF existing # <<>> /\ ~pr.force
       THEN /\ procs' = [procs EXCEPT ![p] =
                  IdleProc([OutOf(pr, "existing", "") EXCEPT !.existing = existing[1],
                                                             !.selectedVersion = selectedVersion[1]])]
            /\ configFile' = fileAtConflict(configFile, pr.url)
       ELSE \* ensureSource saves the declaration when it registers the source
            /\ procs' = [procs EXCEPT ![p] =
                  [pr EXCEPT !.pc = "ra_resolveRef", !.entry = entry, !.manifest = manifest,
                             !.config = ensured.config,
                             !.manifestRef = pr.registryCommit, !.allowUpdate = TRUE,
                             !.effectiveRef =
                                 effectiveRef(versionMeta(manifest, pr.assetId, selectedVersion[1]),
                                              pr.registryCommit)]]
            /\ configFile' = ensured.file
    /\ since' = SinceAfter(p)

(***************************************************************************)
(* resolveAll                                                              *)
(***************************************************************************)
\* lines 173-198: load the declaration and the lockfile, group, and suspend at the
\* first fetchManifest (or return at once when nothing is declared)
StartResolveAll(p) ==
    LET loaded == load(configFile)
        base == [IdleProc(NoOut) EXCEPT !.op = "resolveAll",
                                        !.preConfig = configFile, !.preLock = lockFile]
    IN
    /\ Idle(p)
    /\ nops < MaxOps
    /\ nops' = nops + 1
    /\ procs' = [procs EXCEPT ![p] =
          IF ~loaded.ok THEN Throw(base, "ConfigNotLoaded")
          ELSE NextAsset([base EXCEPT !.config = loaded.config, !.lockfile0 = lockFile,
                                      !.queue = GroupBySource(loaded.config.assets)], 1)]
    /\ since' = SinceAfter(p)
    /\ UNCHANGED <<hist, head, configFile, lockFile, cache, workspace, forced, selection, publisher, cacheWrite, flow>>

\* lines 205-206 and 235-253: the manifest arrives; resolveAsset up to its first await
ResolveAllFetchManifest(p, net) ==
    LET pr == procs[p]
        m == fetchManifest(pr.manifestRef, head)
    IN
    /\ pr.pc = "r_fetchManifest"
    /\ UNCHANGED <<hist, head, lockFile, cache, workspace, nops, forced, selection, publisher, cacheWrite, flow>>
    /\ IF ~net \/ ~m.ok
       THEN AssetFailed(p, pr, IF ~net THEN "Transport" ELSE "NotFound")
       ELSE EnterResolveAsset(p, pr, pr.entry, m.manifest, pr.manifestRef, FALSE)
    /\ since' = SinceAfter(p)

(***************************************************************************)
(* The environment                                                         *)
(***************************************************************************)
\* the maintainer pushes the next commit to main (and may move the tag)
Push ==
    /\ head < Len(hist)
    /\ head' = head + 1
    /\ since' = [since EXCEPT !.changed = TRUE]
    /\ UNCHANGED <<hist, configFile, lockFile, cache, workspace, procs, nops, forced, selection, publisher, cacheWrite, flow>>

CacheKeys == {"acme", "src"} \X Ids \X Versions

\* clearAll: the whole cache is removed
clearAll ==
    /\ AllIdle
    /\ \E key \in CacheKeys : cache[key] # {}
    /\ cache' = [key \in CacheKeys |-> {}]
    /\ since' = [since EXCEPT !.changed = TRUE]
    /\ UNCHANGED <<hist, head, configFile, lockFile, workspace, procs, nops, forced, selection, publisher, cacheWrite, flow>>

(***************************************************************************)
(* Version selection of install, on its own                                *)
(***************************************************************************)
Selection(versions, versionRange, done, selected, error) ==
    [versions |-> versions, versionRange |-> versionRange, done |-> done,
     selected |-> selected, error |-> error, latestVersion |-> ""]
NoSelection == Selection({}, "", FALSE, <<>>, "")

\* install, lines 122-134: Object.keys(assetMeta.versions), the selection, and the
\* throw when nothing was selected
PickVersion ==
    LET selectedVersion == selectVersion(selection.versions, selection.versionRange)
    IN /\ selection.versionRange # ""
       /\ ~selection.done
       /\ selection' = [selection EXCEPT !.done = TRUE, !.selected = selectedVersion,
                           !.error = IF selectedVersion = <<>> THEN "NoMatchingVersion" ELSE ""]
       /\ UNCHANGED <<hist, head, configFile, lockFile, cache, workspace, procs, nops, forced,
                      since, publisher, cacheWrite, flow>>

\* ManifestResolver.listAssets, lines 163-168: Object.keys(asset.versions).sort() and its
\* last element, or 'unknown' when the asset declares no version
latestVersion(versions) ==
    IF versions = {} THEN "unknown" ELSE lexMax(versions)[1]

\* listRemote, lines 91-103: the entry listAssets reports for the asset
ListAssets ==
    /\ selection.versionRange # ""
    /\ selection.latestVersion = ""
    /\ selection' = [selection EXCEPT !.latestVersion = latestVersion(selection.versions)]
    /\ UNCHANGED <<hist, head, configFile, lockFile, cache, workspace, procs, nops, forced,
                   since, publisher, cacheWrite, flow>>

(***************************************************************************)
(* Publisher (the maintainer's side): publishVersion and its checkpointing *)
(***************************************************************************)
MaxPublish == 3

PublishVersions == {"1.0.0", "2.0.0", "2.0.0-beta", "nightly"}
PathOf(assetId) == IF assetId = "a" THEN PA ELSE PB
KindOf(assetId) == IF assetId = "a" THEN "prompt" ELSE "skill"

\* a variant of publishVersion that checkpoints before it looks for a duplicate
publishVersion_late(manifest, assetId, version, filePath, kind, currentCommit) ==
    LET existing == manifestVersions(manifest, assetId)
        existingVersions == {v \in existing : valid(v)}
        previousVersion == selectVersion(existingVersions, "latest")
        previousMeta == versionMeta(manifest, assetId, previousVersion[1])
        checkpoint == existingVersions # {} /\ previousMeta.ref = NoRef /\ currentCommit # <<>>
        pinned == IF checkpoint
                  THEN (manifest \ {previousMeta}) \cup {[previousMeta EXCEPT !.ref = currentCommit[1]]}
                  ELSE manifest
    IN IF version \in existing
       THEN [ok |-> FALSE, error |-> "DuplicateVersion", manifest |-> pinned, saved |-> FALSE]
       ELSE [ok |-> TRUE, error |-> "", saved |-> TRUE,
             manifest |-> pinned \cup {MV(assetId, kind, version, NoRef, filePath)}]

\* a variant of publishVersion without the try/catch around `git rev-parse HEAD`
publishVersion_strict(manifest, assetId, version, filePath, kind, currentCommit) ==
    LET existing == manifestVersions(manifest, assetId)
        existingVersions == {v \in existing : valid(v)}
        previousVersion == selectVersion(existingVersions, "latest")
        previousMeta == versionMeta(manifest, assetId, previousVersion[1])
        needed == existingVersions # {} /\ previousMeta.ref = NoRef
        pinned == IF needed /\ currentCommit # <<>>
                  THEN (manifest \ {previousMeta}) \cup {[previousMeta EXCEPT !.ref = currentCommit[1]]}
                  ELSE manifest
    IN IF version \in existing
       THEN [ok |-> FALSE, error |-> "DuplicateVersion", manifest |-> manifest, saved |-> FALSE]
       ELSE IF needed /\ currentCommit = <<>>
       THEN [ok |-> FALSE, error |-> "Git", manifest |-> manifest, saved |-> FALSE]
       ELSE [ok |-> TRUE, error |-> "", saved |-> TRUE,
             manifest |-> pinned \cup {MV(assetId, kind, version, NoRef, filePath)}]

\* Publisher.publishVersion, types.ts lines 163-214.  currentCommit is what
\* `git rev-parse HEAD` printed, <<>> when the command failed.  The result is the
\* manifest object after the call, whether it was saved, and the error thrown if any.
publishVersion(manifest, assetId, version, filePath, kind, currentCommit) ==
    LET existing == manifestVersions(manifest, assetId)
        \* line 183
        existingVersions == {v \in existing : valid(v)}
        \* line 185: maxSatisfying(existingVersions, '*') || sort().reverse()[0]
        previousVersion == selectVersion(existingVersions, "latest")
        previousMeta == versionMeta(manifest, assetId, previousVersion[1])
        \* lines 184-204
        checkpoint == existingVersions # {} /\ previousMeta.ref = NoRef /\ currentCommit # <<>>
        pinned == IF checkpoint
                  THEN (manifest \ {previousMeta}) \cup {[previousMeta EXCEPT !.ref = currentCommit[1]]}
                  ELSE manifest
    IN IF version \in existing
       THEN [ok |-> FALSE, error |-> "DuplicateVersion", manifest |-> manifest, saved |-> FALSE]
       ELSE [ok |-> TRUE, error |-> "", saved |-> TRUE,
             manifest |-> pinned \cup {MV(assetId, kind, version, NoRef, filePath)}]

\* the outcome of the last publish command, with the state it started from
PublishOut(status, error, assetId, version, gitOK, file, HEAD) ==
    [status |-> status, error |-> error, assetId |-> assetId, version |-> version,
     gitOK |-> gitOK, file |-> file, HEAD |-> HEAD]
NoPublish == PublishOut("none", "", "", "", TRUE, {}, "")
\* a freshly initialised source repository (initManifest): no assets, HEAD at c1;
\* committed is the manifest each commit holds, which at c1 declares nothing
NoPublisher ==
    [manifest |-> {}, file |-> {}, HEAD |-> "c1", count |-> 0, gitFailed |-> FALSE,
     out |-> NoPublish, committed |-> <<{}>>]

\* the parca.publish command, extension.ts lines 167-233: loadManifest, the maintainer's
\* choices, publishVersion
Publish(assetId, version, gitOK) ==
    LET manifest == publisher.file
        kind == IF manifestHasAsset(manifest, assetId) THEN manifestKind(manifest, assetId)
                ELSE KindOf(assetId)
        r == publishVersion(manifest, assetId, version, PathOf(assetId), kind,
                            IF gitOK THEN <<publisher.HEAD>> ELSE <<>>)
    IN /\ publisher.count < MaxPublish
       /\ publisher' = [publisher EXCEPT
              !.manifest = r.manifest,
              !.file = IF r.saved THEN r.manifest ELSE @,
              !.count = @ + 1,
              !.gitFailed = @ \/ ~gitOK,
              !.out = PublishOut(IF r.ok THEN "ok" ELSE "error", r.error, assetId, version,
                                 gitOK, publisher.file, publisher.HEAD)]
       /\ UNCHANGED <<hist, head, configFile, lockFile, cache, workspace, procs, nops, forced,
                      since, selection, cacheWrite, flow>>

\* the maintainer commits the manifest: HEAD moves to a new commit
CommitManifest ==
    /\ publisher.out.status = "ok"
    /\ IsCommitName(publisher.HEAD)
    /\ CommitIdx(publisher.HEAD) < Len(CommitName)
    /\ CommitIdx(publisher.HEAD) <= publisher.count
    /\ publisher' = [publisher EXCEPT !.HEAD = CommitName[CommitIdx(publisher.HEAD) + 1],
                                      !.committed = Append(@, publisher.file)]
    /\ UNCHANGED <<hist, head, configFile, lockFile, cache, workspace, procs, nops, forced,
                   since, selection, cacheWrite, flow>>

(***************************************************************************)
(* CacheManager on its own, and the extension's install command            *)
(***************************************************************************)
\* the outcome of a write: the operation, the key, the content or the files it was
\* given, and the sha256 it returned
Written(op, key, content, files, sha256, before) ==
    [op |-> op, key |-> key, content |-> content, files |-> files, sha256 |-> sha256,
     before |-> before]
NoWritten == Written("none", <<>>, <<>>, {}, <<>>, {})

\* installAsset(url, assetId, versionRange): its arguments, whether the Replace prompt
\* was answered, and the selectedVersion the prompt showed
Flow(url, assetId, versionRange, stage, offered) ==
    [url |-> url, assetId |-> assetId, versionRange |-> versionRange, stage |-> stage,
     offered |-> offered]
NoFlow == Flow(<<>>, "", "", "none", "")

(***************************************************************************)
(* Specification: one call at a time, the remote moving at any moment      *)
(***************************************************************************)
SrcOnly == [NoSources EXCEPT !["src"] = Source(U1)]
Declared(id, alias) == AssetEntry(id, alias, "1.0.0", getDefaultMapping(IF id = "a" THEN "prompt" ELSE "skill", id))
\* the declaration of the test fixture (a source, no assets)
FixtureConfig == Config(SrcOnly, <<>>)
\* a fresh clone of a consumer repository: assets declared, no lockfile, no cache
CloneConfig == Config(SrcOnly, <<Declared("a", "src"), Declared("b", "src")>>)
\* a hand-written declaration whose second asset names an alias that is not registered
GhostConfig == Config(SrcOnly, <<Declared("a", "src"), Declared("b", "ghost")>>)
InitConfigs == {FixtureConfig, CloneConfig, GhostConfig}

\* the install commands issued: url, asset id, version range, forceReinstall
InstallInputs ==
    { <<U1, "a", "latest", FALSE>>, <<U1, "a", "latest", TRUE>>,
      <<U1, "a", "1.0.0", FALSE>>, <<U1, "a", "1.0.0", TRUE>>,
      <<U1, "b", "latest", FALSE>>, <<U2, "a", "latest", FALSE>> }

Init ==
    /\ hist \in Histories
    /\ head = 1
    /\ configFile \in InitConfigs
    /\ lockFile = <<>>
    /\ cache = [k \in CacheKeys |-> {}]
    /\ workspace = [links |-> {}, gitignore |-> {}]
    /\ procs = [p \in Procs |-> IdleProc(NoOut)]
    /\ nops = 0
    /\ forced = FALSE
    /\ since = [results |-> {}, changed |-> FALSE]
    /\ selection = NoSelection
    /\ publisher = NoPublisher
    /\ cacheWrite = NoWritten
    /\ flow = NoFlow

Next ==
    \/ \E in \in InstallInputs : AllIdle /\ StartInstall(1, in[1], in[2], in[3], in[4])
    \/ \E net \in BOOLEAN : InstallResolveMain(1, net)
    \/ \E net \in BOOLEAN : InstallFetchManifest(1, net)
    \/ AllIdle /\ StartResolveAll(1)
    \/ \E net \in BOOLEAN : ResolveAllFetchManifest(1, net)
    \/ \E net, symOK \in BOOLEAN : ResolveAssetRef(1, net, symOK)
    \/ \E net, symOK \in BOOLEAN : ResolveAssetFetch(1, net, symOK)
    \/ Push
    \/ clearAll

Spec == Init /\ [][Next]_vars

\* the engine at rest: what Init fixes for the specifications of one component
EngineAtRest ==
    /\ hist = H1
    /\ head = 1
    /\ configFile = FixtureConfig
    /\ lockFile = <<>>
    /\ cache = [k \in CacheKeys |-> {}]
    /\ workspace = [links |-> {}, gitignore |-> {}]
    /\ procs = [p \in Procs |-> IdleProc(NoOut)]
    /\ nops = 0
    /\ forced = FALSE
    /\ since = [results |-> {}, changed |-> FALSE]
    /\ cacheWrite = NoWritten
    /\ flow = NoFlow

(***************************************************************************)
(* Specification of the Ledger under every operation that writes it:       *)
(* install, resolveAll and the removal of an entry                         *)
(***************************************************************************)
\* lockfileManager.save(lockfileManager.removeAsset(lockfileManager.load(), id, source))
RemoveLocked(id, source) ==
    /\ AllIdle
    /\ findAsset(lockFile, id, source) # <<>>
    /\ lockFile' = removeAsset(lockFile, id, source)
    /\ since' = [since EXCEPT !.changed = TRUE]
    /\ UNCHANGED <<hist, head, configFile, cache, workspace, procs, nops, forced,
                   selection, publisher, cacheWrite, flow>>
NextLedger ==
    \/ Next
    \/ \E id \in Ids, source \in Aliases : RemoveLocked(id, source)
SpecLedger == Init /\ [][NextLedger]_vars

(***************************************************************************)
(* Specification of interleaved calls in one extension host: a call may    *)
(* start while another is suspended at an await                            *)
(***************************************************************************)
\* a declaration with one declared asset, resolved by the activation-time resolveAll
OneDeclared == Config(SrcOnly, <<Declared("a", "src")>>)
ConcurrentInputs == {<<U1, "a", "latest", FALSE>>, <<U1, "b", "latest", FALSE>>}
InitConcurrent ==
    /\ hist = H1
    /\ head = 1
    /\ configFile \in {FixtureConfig, OneDeclared}
    /\ lockFile = <<>>
    /\ cache = [k \in CacheKeys |-> {}]
    /\ workspace = [links |-> {}, gitignore |-> {}]
    /\ procs = [p \in Procs |-> IdleProc(NoOut)]
    /\ nops = 0
    /\ forced = FALSE
    /\ since = [results |-> {}, changed |-> FALSE]
    /\ selection = NoSelection
    /\ publisher = NoPublisher
    /\ cacheWrite = NoWritten
    /\ flow = NoFlow
NextConcurrent ==
    \/ \E p \in Procs, in \in ConcurrentInputs : StartInstall(p, in[1], in[2], in[3], in[4])
    \/ \E p \in Procs, net \in BOOLEAN : InstallResolveMain(p, net)
    \/ \E p \in Procs, net \in BOOLEAN : InstallFetchManifest(p, net)
    \/ \E p \in Procs : StartResolveAll(p)
    \/ \E p \in Procs, net \in BOOLEAN : ResolveAllFetchManifest(p, net)
    \/ \E p \in Procs, net, symOK \in BOOLEAN : ResolveAssetRef(p, net, symOK)
    \/ \E p \in Procs, net, symOK \in BOOLEAN : ResolveAssetFetch(p, net, symOK)
SpecConcurrent == InitConcurrent /\ [][NextConcurrent]_vars

(***************************************************************************)
(* Specification of the engine with a cache that is altered from outside   *)
(***************************************************************************)
RECURSIVE toCRLF(_)
\* the text with every LF turned into CR LF (what an editor set to CRLF saves)
toCRLF(s) ==
    IF s = <<>> THEN <<>>
    ELSE IF s[1] = "\n" THEN <<"\r", "\n">> \o toCRLF(Tail(s))
    ELSE <<s[1]>> \o toCRLF(Tail(s))

Alterations == {"edit", "crlf", "add", "remove"}
\* a cached directory after an alteration of the file f made outside the engine
Altered(dir, f, alteration) ==
    CASE alteration = "edit" -> (dir \ {f}) \cup {File(f.path, <<"z">>)}
      [] alteration = "crlf" -> (dir \ {f}) \cup {File(f.path, toCRLF(f.content))}
      [] alteration = "add" -> dir \cup {File("zz.md", TY)}
      [] alteration = "remove" -> dir \ {f}

\* somebody edits the cache directory of a locked asset, which matched the Ledger
\* hash, while no call is running
TamperCache(key, alteration) ==
    /\ AllIdle
    /\ \E i \in 1..Len(lockFile) :
          /\ CacheKey(lockFile[i]) = key
          /\ isCached(cache[key], lockFile[i].id, KindOf(lockFile[i].id), lockFile[i].sha256)
    /\ \E f \in cache[key] :
          /\ Altered(cache[key], f, alteration) # cache[key]
          /\ cache' = [cache EXCEPT ![key] = Altered(cache[key], f, alteration)]
    /\ since' = [since EXCEPT !.changed = TRUE]
    /\ UNCHANGED <<hist, head, configFile, lockFile, workspace, procs, nops, forced,
                   selection, publisher, cacheWrite, flow>>

InitTamper ==
    /\ Init
    /\ hist \in {H1, H2}
    /\ configFile = FixtureConfig
NextTamper ==
    \/ Next
    \/ \E key \in CacheKeys, alteration \in Alterations : TamperCache(key, alteration)
SpecTamper == InitTamper /\ [][NextTamper]_vars

(***************************************************************************)
(* Specification of version selection: every set of declared versions and  *)
(* every specifier                                                         *)
(***************************************************************************)
VersionSpecifiers == {"latest", "1.0.0", "2.0.0-beta"}
InitSelect ==
    /\ EngineAtRest
    /\ publisher = NoPublisher
    /\ selection \in {Selection(versions, versionRange, FALSE, <<>>, "") :
                         versions \in SUBSET VersionStrings, versionRange \in VersionSpecifiers}
NextSelect == PickVersion \/ ListAssets
SpecSelect == InitSelect /\ [][NextSelect]_vars

(***************************************************************************)
(* Specification of the publisher: any versions published in any order,    *)
(* git answering or not, commits in between                                *)
(***************************************************************************)
InitPublish ==
    /\ EngineAtRest
    /\ selection = NoSelection
    /\ publisher = NoPublisher
NextPublish ==
    \/ \E assetId \in Ids, version \in PublishVersions, gitOK \in BOOLEAN :
          Publish(assetId, version, gitOK)
    \/ CommitManifest
SpecPublish == InitPublish /\ [][NextPublish]_vars

(***************************************************************************)
(* Specification of CacheManager on its own: any text written as a single  *)
(* file, directory payloads written as a skill                             *)
(***************************************************************************)
MaxLen == 3
Chars == {"x", "\r", "\n"}
\* every text of at most MaxLen characters
Texts == UNION {[1..n -> Chars] : n \in 0..MaxLen}

TCRcrlf == <<"\r", "\r", "\n">>
SkillTexts == {TX, TXlf, TXcrlf, TCRcrlf}
\* what fetchDirectory may hand over: SKILL.md with a companion file, or the companion
\* file alone
SkillPayloads ==
    {{File("SKILL.md", t), File("notes.md", TXcrlf)} : t \in SkillTexts}
    \cup {{File("notes.md", TXcrlf)}}

FileKey == <<"src", "a", "1.0.0">>
DirKey == <<"src", "b", "1.0.0">>

\* cacheManager.writeToCache(source, id, version, content)
WriteFile(key, content) ==
    LET r == writeToCache(cache[key], key[2], content)
    IN /\ AllIdle
       /\ cache' = [cache EXCEPT ![key] = r.dir]
       /\ cacheWrite' = Written("writeToCache", key, content, {}, r.sha256, cache[key])
       /\ UNCHANGED <<hist, head, configFile, lockFile, workspace, procs, nops, forced,
                      since, selection, publisher, flow>>

\* cacheManager.writeDirectoryToCache(source, id, version, files)
WriteDirectory(key, files) ==
    LET r == writeDirectoryToCache(cache[key], files)
    IN /\ AllIdle
       /\ cache' = [cache EXCEPT ![key] = r.dir]
       /\ cacheWrite' = Written("writeDirectoryToCache", key, <<>>, files, r.sha256, cache[key])
       /\ UNCHANGED <<hist, head, configFile, lockFile, workspace, procs, nops, forced,
                      since, selection, publisher, flow>>

InitCache ==
    /\ EngineAtRest
    /\ selection = NoSelection
    /\ publisher = NoPublisher
NextCache ==
    \/ \E content \in Texts : WriteFile(FileKey, content)
    \/ \E files \in SkillPayloads : WriteDirectory(DirKey, files)
SpecCache == InitCache /\ [][NextCache]_vars

(***************************************************************************)
(* Specification of the engine with a consumer who edits the declared      *)
(* version of an installed asset                                           *)
(***************************************************************************)
RECURSIVE withVersion(_, _, _)
\* the declared assets with the version of every entry of id set to version
withVersion(assets, id, version) ==
    IF assets = <<>> THEN <<>>
    ELSE <<IF assets[1].id = id THEN [assets[1] EXCEPT !.version = version] ELSE assets[1]>>
         \o withVersion(Tail(assets), id, version)

\* the consumer edits `version:` of an entry in .parca-assets.yaml while no call runs
DeclareVersion(id, version) ==
    /\ AllIdle
    /\ \E i \in 1..Len(configFile.assets) :
          configFile.assets[i].id = id /\ configFile.assets[i].version # version
    /\ configFile' = [configFile EXCEPT !.assets = withVersion(@, id, version)]
    /\ since' = [since EXCEPT !.changed = TRUE]
    /\ UNCHANGED <<hist, head, lockFile, cache, workspace, procs, nops, forced,
                   selection, publisher, cacheWrite, flow>>

InitUpgrade ==
    /\ Init
    /\ hist = H1
    /\ configFile = FixtureConfig
NextUpgrade ==
    \/ Next
    \/ \E id \in Ids, version \in Versions : DeclareVersion(id, version)
SpecUpgrade == InitUpgrade /\ [][NextUpgrade]_vars

(***************************************************************************)
(* Specification of installs from two repositories of one organisation:    *)
(* both URLs derive the same alias                                         *)
(***************************************************************************)
\* a hand-written declaration that names the source after its organisation
AcmeConfig == Config([NoSources EXCEPT !["acme"] = Source(U1)], <<Declared("a", "acme")>>)
AliasInputs ==
    { <<U2, "b", "latest", FALSE>>, <<U2, "a", "latest", FALSE>>, <<U2, "a", "latest", TRUE>>,
      <<U1, "a", "latest", TRUE>> }
\* the steps that continue an install call of process 1
ContinueInstall ==
    \/ \E net \in BOOLEAN : InstallResolveMain(1, net)
    \/ \E net \in BOOLEAN : InstallFetchManifest(1, net)
    \/ \E net, symOK \in BOOLEAN : ResolveAssetRef(1, net, symOK)
    \/ \E net, symOK \in BOOLEAN : ResolveAssetFetch(1, net, symOK)
\* the steps that continue the call of process 1
Continue ==
    \/ ContinueInstall
    \/ \E net \in BOOLEAN : ResolveAllFetchManifest(1, net)
InitAlias ==
    /\ hist = H1
    /\ head = 1
    /\ configFile \in {AcmeConfig, CloneConfig}
    /\ lockFile = <<>>
    /\ cache = [k \in CacheKeys |-> {}]
    /\ workspace = [links |-> {}, gitignore |-> {}]
    /\ procs = [p \in Procs |-> IdleProc(NoOut)]
    /\ nops = 0
    /\ forced = FALSE
    /\ since = [results |-> {}, changed |-> FALSE]
    /\ selection = NoSelection
    /\ publisher = NoPublisher
    /\ cacheWrite = NoWritten
    /\ flow = NoFlow
NextAlias ==
    \/ \E in \in AliasInputs : AllIdle /\ StartInstall(1, in[1], in[2], in[3], in[4])
    \/ AllIdle /\ StartResolveAll(1)
    \/ Continue
    \/ Push
SpecAlias == InitAlias /\ [][NextAlias]_vars

(***************************************************************************)
(* Specification of the extension's install command: installAsset calls    *)
(* install, shows the Replace prompt on a conflict, and calls install      *)
(* again with forceReinstall                                               *)
(***************************************************************************)
FlowInputs == {<<U1, "a", "latest">>, <<U1, "a", "1.0.0">>, <<U1, "b", "latest">>}

\* extension.ts line 280: r.install(url, assetId, versionRange)
FirstInstall ==
    /\ flow.stage = "start"
    /\ procs[1].out.op = "none"
    /\ StartInstall(1, flow.url, flow.assetId, flow.versionRange, FALSE)

\* lines 283-290: the call returned {existing, selectedVersion}; the prompt names
\* result.selectedVersion and the user chooses Replace
ConfirmReplace ==
    /\ flow.stage = "start"
    /\ Idle(1)
    /\ procs[1].out.status = "existing"
    /\ flow' = [flow EXCEPT !.stage = "replace", !.offered = procs[1].out.selectedVersion]
    /\ UNCHANGED <<hist, head, configFile, lockFile, cache, workspace, procs, nops, forced,
                   since, selection, publisher, cacheWrite>>

\* line 292: r.install(url, assetId, versionRange, true)
ReplaceInstall ==
    /\ flow.stage = "replace"
    /\ procs[1].out.status = "existing"
    /\ StartInstall(1, flow.url, flow.assetId, flow.versionRange, TRUE)

InitReplace ==
    /\ hist \in {H1, H2}
    /\ head = 1
    /\ configFile \in {FixtureConfig, CloneConfig}
    /\ lockFile = <<>>
    /\ cache = [k \in CacheKeys |-> {}]
    /\ workspace = [links |-> {}, gitignore |-> {}]
    /\ procs = [p \in Procs |-> IdleProc(NoOut)]
    /\ nops = 0
    /\ forced = FALSE
    /\ since = [results |-> {}, changed |-> FALSE]
    /\ selection = NoSelection
    /\ publisher = NoPublisher
    /\ cacheWrite = NoWritten
    /\ flow \in {Flow(in[1], in[2], in[3], "start", "") : in \in FlowInputs}
NextReplace ==
    \/ FirstInstall
    \/ ConfirmReplace
    \/ ReplaceInstall
    \/ ContinueInstall
    \/ Push
SpecReplace == InitReplace /\ [][NextReplace]_vars


(***************************************************************************)
(* Observations of one step of a call                                      *)
(***************************************************************************)
ErrorsOf(pr) == IF pr.pc = "idle" THEN pr.out.errors ELSE pr.errors
ResultsOf(pr) == IF pr.pc = "idle" THEN pr.out.results ELSE pr.results
FetchesOf(pr) == IF pr.pc = "idle" THEN pr.out.fetches ELSE pr.fetches
Stepped(p) == procs'[p] # procs[p]
\* the error reported for the current asset by this step of resolveAll ("" when none)
NewError(p) ==
    IF Len(ErrorsOf(procs'[p])) > Len(procs[p].errors)
    THEN ErrorsOf(procs'[p])[Len(procs[p].errors) + 1].error ELSE ""
NewResult(p) == Len(ResultsOf(procs'[p])) > Len(procs[p].results)
TheResult(p) == ResultsOf(procs'[p])[Len(procs[p].results) + 1]
AssetCompletes(p) == NewResult(p) \/ NewError(p) # ""
\* the Ledger entry on disk for the asset a call is resolving
LockedOf(file, e) == findAsset(file, e.id, e.source)
\* the hash of the content the remote serves for the asset being fetched
FreshSha(pr) ==
    LET vm == versionMeta(pr.manifest, pr.entry.id, pr.entry.version)
    IN IF manifestKind(pr.manifest, pr.entry.id) = "skill"
       THEN writeDirectoryToCache({}, fetchDirectory(vm.path, pr.effectiveRef, head).files).sha256
       ELSE computeHashFromString(fetchFile(vm.path, pr.effectiveRef, head).content)
EnvFailure == {"Transport", "Projection"}

(***************************************************************************)
(* C1  Integrity gate: in resolveAsset with allowUpdate = false, when the  *)
(* Ledger holds an entry for (id, source) with a recorded hash and the     *)
(* hash of the freshly fetched content differs from it, the asset fails    *)
(* with IntegrityMismatch, the Ledger is not written and no ResolvedAsset  *)
(* is returned for it.                                                     *)
(***************************************************************************)
C1_Case(p) ==
    LET pr == procs[p]
        L == LockedOf(lockFile, pr.entry)
    IN /\ pr.pc = "ra_fetch"
       /\ Stepped(p)
       /\ ~pr.allowUpdate
       /\ L # <<>>
       /\ L[1].sha256 # <<>>
       /\ NewError(p) \notin {"Transport", "NotFound", "MissingSkillEntry"}
       /\ FreshSha(pr) # L[1].sha256

C1_IntegrityGate ==
    [][\A p \in Procs : C1_Case(p) =>
          /\ NewError(p) = "IntegrityMismatch"
          /\ lockFile' = lockFile
          /\ ~NewResult(p)]_vars

C1_Witness ==
    \E p \in Procs :
        /\ Idle(p)
        /\ procs[p].out.op = "resolveAll"
        /\ \E i \in 1..Len(procs[p].out.errors) :
              /\ procs[p].out.errors[i].error = "IntegrityMismatch"
              /\ \E j \in 1..Len(lockFile) : lockFile[j].id = procs[p].out.errors[i].id

(***************************************************************************)
(* C2  Locked immutability: for a declared asset whose Ledger entry has    *)
(* the declared version and whose manifest version is rolling, resolveAll  *)
(* fetches at the locked commit, succeeds (the host answering and the      *)
(* projection working), returns the locked commit and sha256 and leaves    *)
(* the entry's version, commit and sha256 unchanged.                       *)
(***************************************************************************)
C2_Case(p) ==
    LET pr == procs[p]
        L == LockedOf(lockFile, pr.entry)
    IN /\ pr.op = "resolveAll"
       /\ pr.pc \in {"ra_resolveRef", "ra_fetch"}
       /\ AssetCompletes(p)
       /\ L # <<>>
       /\ L[1].version = pr.entry.version
       /\ versionMeta(pr.manifest, pr.entry.id, pr.entry.version).ref = NoRef
       /\ NewError(p) \notin EnvFailure

C2_LockedImmutability ==
    [][\A p \in Procs : C2_Case(p) =>
          LET pr == procs[p]
              L == LockedOf(lockFile, pr.entry)
              L2 == LockedOf(lockFile', pr.entry)
          IN /\ pr.manifestRef = L[1].commit
             /\ pr.effectiveRef = L[1].commit
             /\ NewResult(p)
             /\ TheResult(p).commit = L[1].commit
             /\ TheResult(p).sha256 = L[1].sha256
             /\ L2 # <<>>
             /\ L2[1].version = L[1].version
             /\ L2[1].commit = L[1].commit
             /\ L2[1].sha256 = L[1].sha256]_vars

(***************************************************************************)
(* C3  Only a forced install passes the integrity gate: as long as install *)
(* has never been called with force = true, no step changes the hash the   *)
(* Ledger records for an (id, source) at a version it keeps.               *)
(***************************************************************************)
C3_OnlyForcedPassesGate ==
    [][~forced' =>
          \A i \in 1..Len(lockFile), j \in 1..Len(lockFile') :
              (/\ lockFile[i].id = lockFile'[j].id
               /\ lockFile[i].source = lockFile'[j].source
               /\ lockFile[i].version = lockFile'[j].version)
              => lockFile'[j].sha256 = lockFile[i].sha256]_vars

(***************************************************************************)
(* C4  Outside an explicit update, resolveAll never changes the commit or  *)
(* the hash of a Ledger entry whose version is the declared version, also  *)
(* when the version's explicit ref is a movable name.                      *)
(***************************************************************************)
C4_NoChangeOutsideUpdate ==
    [][\A p \in Procs :
          LET pr == procs[p]
              L == LockedOf(lockFile, pr.entry)
              L2 == LockedOf(lockFile', pr.entry)
          IN (/\ pr.op = "resolveAll"
              /\ pr.pc = "ra_fetch"
              /\ Stepped(p)
              /\ L # <<>>
              /\ L[1].version = pr.entry.version)
             => (L2 # <<>> /\ L2[1].commit = L[1].commit /\ L2[1].sha256 = L[1].sha256)]_vars

(***************************************************************************)
(* C5  Idempotent re-resolve: when the previous call resolved an asset and *)
(* nothing changed since, resolveAll resolves it through the fast path:    *)
(* no content fetch, the same sha256, the cache and the Ledger untouched.  *)
(***************************************************************************)
C5_Case(p) ==
    LET pr == procs[p]
    IN /\ pr.op = "resolveAll"
       /\ pr.pc \in {"r_fetchManifest", "ra_resolveRef", "ra_fetch"}
       /\ AssetCompletes(p)
       /\ ~since.changed
       /\ \E r \in since.results :
             r.id = pr.entry.id /\ r.source = pr.entry.source /\ r.version = pr.entry.version
       /\ NewError(p) \notin EnvFailure

C5_Idempotent ==
    [][\A p \in Procs : C5_Case(p) =>
          LET pr == procs[p]
          IN /\ NewResult(p)
             /\ FetchesOf(procs'[p]) = pr.fetches
             /\ \E r \in since.results :
                   /\ r.id = pr.entry.id /\ r.source = pr.entry.source
                   /\ r.version = pr.entry.version
                   /\ TheResult(p).sha256 = r.sha256
             /\ cache' = cache
             /\ lockFile' = lockFile]_vars

(***************************************************************************)
(* C6  Install conflict: when the declaration already has an entry for     *)
(* assetId and force is false, install returns {existing, selectedVersion} *)
(* and the declaration, the Ledger, the cache and the workspace are as     *)
(* before the call.                                                        *)
(***************************************************************************)
C6_Case(p) ==
    /\ procs[p].pc = "i_fetchManifest"
    /\ Stepped(p)
    /\ ~procs[p].force
    /\ \E i \in 1..Len(configFile.assets) : configFile.assets[i].id = procs[p].assetId
    /\ procs'[p].out.status # "error"

C6_InstallConflict ==
    [][\A p \in Procs : C6_Case(p) =>
          LET out == procs'[p].out
              first == CHOOSE i \in 1..Len(configFile.assets) :
                          /\ configFile.assets[i].id = procs[p].assetId
                          /\ \A j \in 1..(i - 1) : configFile.assets[j].id # procs[p].assetId
          IN /\ out.status = "existing"
             /\ out.existing = configFile.assets[first]
             /\ out.selectedVersion \in manifestVersions(hist[CommitIdx(procs[p].registryCommit)].manifest,
                                                         procs[p].assetId)
             /\ configFile' = out.preConfig
             /\ lockFile' = out.preLock
             /\ UNCHANGED <<configFile, lockFile, cache, workspace>>]_vars

C6_Witness ==
    \E p \in Procs :
        /\ procs[p].out.status = "existing"
        /\ procs[p].out.existing.id = procs[p].out.assetId
        /\ configFile.sources["acme"] = NoSource

(***************************************************************************)
(* C7  A ConfigAssetEntry is persisted only by an install whose            *)
(* resolveAsset returned successfully: whenever the declared-asset list    *)
(* changes, the install returns the resolved asset, and the entry's        *)
(* content is cached, its Ledger entry written and its symlink in place.   *)
(***************************************************************************)
C7_PersistAfterResolve ==
    [][configFile'.assets # configFile.assets =>
          \E p \in Procs :
              LET out == procs'[p].out
                  r == out.asset
                  n == Len(configFile'.assets)
                  L == findAsset(lockFile', r.id, r.source)
              IN /\ procs[p].op = "install"
                 /\ procs'[p].pc = "idle"
                 /\ out.status = "resolved"
                 /\ n > 0
                 /\ configFile'.assets[n] = AssetEntry(r.id, r.source, r.version, r.mapping)
                 /\ L # <<>>
                 /\ L[1].version = r.version
                 /\ L[1].sha256 = r.sha256
                 /\ isCached(cache'[<<r.source, r.id, r.version>>], r.id,
                             manifestKind(procs[p].manifest, r.id), r.sha256)
                 /\ Link(r.mapping, r.cachePath) \in workspace'.links]_vars

C7_Witness ==
    \E p \in Procs :
        /\ procs[p].out.status = "resolved"
        /\ \E i \in 1..Len(configFile.assets) :
              /\ configFile.assets[i].id = procs[p].out.asset.id
              /\ configFile.assets[i].source = procs[p].out.asset.source
        /\ \A i \in 1..Len(procs[p].out.preConfig.assets) :
              procs[p].out.preConfig.assets[i].id # procs[p].out.asset.id

(***************************************************************************)
(* C8  install is all-or-nothing: when install throws, the persisted       *)
(* declaration and the Ledger are as they were before the call.            *)
(***************************************************************************)
C8_AllOrNothing ==
    \A p \in Procs :
        (Idle(p) /\ procs[p].out.op = "install" /\ procs[p].out.status = "error")
        => (configFile = procs[p].out.preConfig /\ lockFile = procs[p].out.preLock)

(***************************************************************************)
(* C9  resolveAll isolates failures: it does not throw, every declared     *)
(* asset is either returned or reported once through onAssetError, and     *)
(* the returned assets are in declaration order within each source.        *)
(***************************************************************************)
RECURSIVE Sub(_, _, _)
\* the subsequence of q at the positions where mask is b
Sub(q, mask, b) ==
    IF q = <<>> THEN <<>>
    ELSE (IF mask[1] = b THEN <<q[1]>> ELSE <<>>)
         \o Sub(Tail(q), [i \in 1..(Len(q) - 1) |-> mask[i + 1]], b)
EntryOf(r) == [id |-> r.id, source |-> r.source, version |-> r.version]
Partitioned(q, results, errors) ==
    \E mask \in [1..Len(q) -> BOOLEAN] :
        /\ [i \in 1..Len(results) |-> EntryOf(results[i])]
             = [i \in 1..Len(Sub(q, mask, TRUE)) |-> EntryOf(Sub(q, mask, TRUE)[i])]
        /\ [i \in 1..Len(errors) |-> errors[i].id]
             = [i \in 1..Len(Sub(q, mask, FALSE)) |-> Sub(q, mask, FALSE)[i].id]

C9_Isolation ==
    \A p \in Procs :
        (/\ Idle(p)
         /\ procs[p].out.op = "resolveAll"
         /\ load(procs[p].out.preConfig).ok)
        => /\ procs[p].out.status = "done"
           /\ Partitioned(GroupBySource(procs[p].out.preConfig.assets),
                          procs[p].out.results, procs[p].out.errors)

C9_Witness ==
    \E p \in Procs :
        LET out == procs[p].out
            q == GroupBySource(out.preConfig.assets)
        IN /\ Idle(p)
           /\ out.op = "resolveAll"
           /\ out.status = "done"
           /\ Len(q) = 2
           /\ Len(out.errors) = 1
           /\ Len(out.results) = 1
           /\ out.errors[1].id = q[1].id
           /\ out.results[1].id = q[2].id

(***************************************************************************)
(* C10  A declared asset whose source alias is not registered is a         *)
(* per-asset error: resolveAll reports it through onAssetError, resolves   *)
(* or reports every other declared asset, and does not fail itself.        *)
(***************************************************************************)
C10_UnregisteredSource ==
    \A p \in Procs :
        LET out == procs[p].out
            q == out.preConfig.assets
        IN (/\ Idle(p)
            /\ out.op = "resolveAll"
            /\ \E i \in 1..Len(q) : out.preConfig.sources[q[i].source] = NoSource)
           => /\ out.status = "done"
              /\ \A i \in 1..Len(q) :
                    IF out.preConfig.sources[q[i].source] = NoSource
                    THEN \E k \in 1..Len(out.errors) : out.errors[k].id = q[i].id
                    ELSE \/ \E k \in 1..Len(out.errors) : out.errors[k].id = q[i].id
                         \/ \E k \in 1..Len(out.results) : out.results[k].id = q[i].id

(***************************************************************************)
(* C11  Ledger key uniqueness: starting from an empty lockfile, after any  *)
(* sequence of install, resolveAll and removals, successful or failed, the *)
(* Ledger holds at most one LockedAsset per (id, source).                  *)
(***************************************************************************)
C11_KeyUniqueness ==
    \A i, j \in 1..Len(lockFile) :
        (lockFile[i].id = lockFile[j].id /\ lockFile[i].source = lockFile[j].source) => i = j

\* a call has just rewritten the entry of a key that was locked before it started,
\* while another key is locked too
C11_Witness ==
    /\ Idle(1)
    /\ Len(lockFile) = 2
    /\ \E i \in 1..2 :
          /\ lockFile[i].resolvedAt = 2
          /\ findAsset(procs[1].out.preLock, lockFile[i].id, lockFile[i].source) # <<>>
          /\ findAsset(procs[1].out.preLock, lockFile[i].id, lockFile[i].source)[1].resolvedAt = 1

(***************************************************************************)
(* C12  A cache entry that matches the Ledger survives a failed            *)
(* resolution: when resolveAsset fails with IntegrityMismatch, the cache   *)
(* entry of (source, id, version) still hashes to the Ledger's recorded    *)
(* hash.                                                                   *)
(***************************************************************************)
C12_CacheSurvivesMismatch ==
    [][\A p \in Procs :
          LET pr == procs[p]
              L == LockedOf(lockFile, pr.entry)
              kind == manifestKind(pr.manifest, pr.entry.id)
          IN (/\ pr.pc = "ra_fetch"
              /\ NewError(p) = "IntegrityMismatch"
              /\ L # <<>>
              /\ isCached(cache[CacheKey(pr.entry)], pr.entry.id, kind, L[1].sha256))
             => isCached(cache'[CacheKey(pr.entry)], pr.entry.id, kind, L[1].sha256)]_vars

(***************************************************************************)
(* C13  Every Ledger entry binds a commit to the content of that commit:   *)
(* the recorded sha256 is the hash of what the source repository holds at  *)
(* the recorded commit under the version's path, also when the ref moves   *)
(* between the ref resolution and the content fetch.                       *)
(***************************************************************************)
\* the hash of the content the repository holds for an asset at a commit
ShaAtCommit(id, commit) ==
    IF KindOf(id) = "skill"
    THEN computeDirectoryHash(fetchDirectory(PathOf(id), commit, head).files)
    ELSE computeHashFromString(fetchFile(PathOf(id), commit, head).content)

C13_EntryBindsCommitToContent ==
    \A i \in 1..Len(lockFile) :
        lockFile[i].sha256 = ShaAtCommit(lockFile[i].id, lockFile[i].commit)

(***************************************************************************)
(* C14  Interleaved resolutions keep the Ledger consistent: when two calls *)
(* resolving different (id, source) keys have both completed successfully, *)
(* the Ledger on disk holds the entry of every asset either call resolved. *)
(***************************************************************************)
\* the assets a completed call resolved; none when the call failed for any asset
SucceededOf(out) ==
    IF out.status = "resolved" THEN {out.asset}
    ELSE IF out.status = "done" /\ out.errors = <<>>
    THEN {out.results[i] : i \in 1..Len(out.results)}
    ELSE {}

C14_NoLostEntry ==
    (/\ AllIdle
     /\ SucceededOf(procs[1].out) # {}
     /\ SucceededOf(procs[2].out) # {}
     /\ \A r1 \in SucceededOf(procs[1].out), r2 \in SucceededOf(procs[2].out) :
           r1.id # r2.id \/ r1.source # r2.source)
    => \A r \in SucceededOf(procs[1].out) \cup SucceededOf(procs[2].out) :
          /\ findAsset(lockFile, r.id, r.source) # <<>>
          /\ findAsset(lockFile, r.id, r.source)[1].sha256 = r.sha256

(***************************************************************************)
(* C15  Checkpointing: when the asset's previous version N (its greatest   *)
(* declared version in SemVer precedence) has no ref and HEAD is h when a  *)
(* new version is published, then afterwards N has ref = h and the new     *)
(* version exists without a ref; and publish never overwrites a ref that   *)
(* is present, never changes a path and never removes a version.           *)
(***************************************************************************)
\* the greatest valid SemVer version of a set, prereleases included
SemverMax(versions) ==
    CHOOSE v \in {x \in versions : valid(x)} : \A w \in {x \in versions : valid(x)} : ~lt(v, w)

C15_Checkpointing ==
    LET out == publisher.out
        pre == out.file
        post == publisher.file
        existing == manifestVersions(pre, out.assetId)
        N == SemverMax(existing)
    IN out.status = "ok" =>
          /\ \A r \in pre : \E q \in post :
                /\ q.id = r.id /\ q.version = r.version /\ q.path = r.path
                /\ (r.ref # NoRef => q.ref = r.ref)
          /\ (/\ out.gitOK
              /\ \E v \in existing : valid(v)
              /\ versionMeta(pre, out.assetId, N).ref = NoRef)
             => /\ versionMeta(post, out.assetId, N).ref = out.HEAD
                /\ manifestHasVersion(post, out.assetId, out.version)
                /\ versionMeta(post, out.assetId, out.version).ref = NoRef

(***************************************************************************)
(* C16  Publish invariant: after any sequence of publish calls (git        *)
(* answering each time), every asset has at most one version without a     *)
(* ref, that version is the one published last, and every other version    *)
(* carries a ref.                                                          *)
(***************************************************************************)
Unpinned(manifest, id) == {r \in manifest : r.id = id /\ r.ref = NoRef}

C16_OneUnpinnedVersion ==
    ~publisher.gitFailed =>
        /\ \A id \in Ids : Cardinality(Unpinned(publisher.file, id)) <= 1
        /\ publisher.out.status = "ok" =>
              \A r \in Unpinned(publisher.file, publisher.out.assetId) :
                  r.version = publisher.out.version

(***************************************************************************)
(* C17  Publishing a version string that already exists for the asset      *)
(* fails with DuplicateVersion and changes nothing: the manifest object    *)
(* and the manifest file are as before, and no version acquires a ref.     *)
(***************************************************************************)
C17_DuplicateVersion ==
    LET out == publisher.out
    IN (out.status # "none" /\ out.version \in manifestVersions(out.file, out.assetId))
       => /\ out.status = "error"
          /\ out.error = "DuplicateVersion"
          /\ publisher.manifest = out.file
          /\ publisher.file = out.file

\* a duplicate was refused while the asset had a version a checkpoint would have pinned
C17_Witness ==
    /\ publisher.out.error = "DuplicateVersion"
    /\ publisher.out.gitOK
    /\ \E r \in Unpinned(publisher.out.file, publisher.out.assetId) : valid(r.version)

(***************************************************************************)
(* C18  Checkpoint failure is non-fatal: when HEAD cannot be determined,   *)
(* publish still succeeds, adds the new version without a ref and saves    *)
(* the manifest; every previous version is left as it was, and no ref is   *)
(* set to an empty or partial value.                                       *)
(***************************************************************************)
C18_CheckpointFailureNonFatal ==
    LET out == publisher.out
    IN (/\ out.status # "none"
        /\ ~out.gitOK
        /\ out.version \notin manifestVersions(out.file, out.assetId))
       => /\ out.status = "ok"
          /\ publisher.file = publisher.manifest
          /\ \E r \in publisher.file :
                /\ r.id = out.assetId /\ r.version = out.version /\ r.ref = NoRef
                /\ publisher.file = out.file \cup {r}

\* HEAD could not be determined while the previous version was waiting for its checkpoint
C18_Witness ==
    /\ publisher.out.status = "ok"
    /\ ~publisher.out.gitOK
    /\ \E r \in Unpinned(publisher.out.file, publisher.out.assetId) :
          /\ valid(r.version)
          /\ r \in publisher.file

(***************************************************************************)
(* C19  Version selection for "latest": when at least one declared version *)
(* is valid SemVer, install selects the SemVer-maximal declared version    *)
(* (prereleases included in the comparison); when none is valid it selects *)
(* the lexicographically greatest string; with no declared version it      *)
(* fails with NoMatchingVersion.                                           *)
(***************************************************************************)
C19_LatestSelection ==
    (selection.done /\ selection.versionRange = "latest") =>
        IF \E v \in selection.versions : valid(v)
        THEN selection.selected = <<SemverMax(selection.versions)>> /\ selection.error = ""
        ELSE IF selection.versions # {}
        THEN /\ selection.error = ""
             /\ \E v \in selection.versions :
                   /\ selection.selected = <<v>>
                   /\ \A w \in selection.versions : ~stringLess(v, w)
        ELSE selection.selected = <<>> /\ selection.error = "NoMatchingVersion"

(***************************************************************************)
(* C20  Tamper detection: after every alteration made outside the engine   *)
(* to a cached entry that matched the Ledger hash (bytes or files changed, *)
(* added or removed), isCached is false against the Ledger hash; a         *)
(* resolveAll that finds the entry not matching does not take the fast     *)
(* path, refetches at the locked commit, and ends with the cache matching  *)
(* the Ledger hash again or with an error for that asset.                  *)
(***************************************************************************)
LockedCached(c, L) == isCached(c[CacheKey(L)], L.id, KindOf(L.id), L.sha256)

C20_TamperDetection ==
    [][/\ \A i \in 1..Len(lockFile) :
             (/\ procs' = procs
              /\ LockedCached(cache, lockFile[i])
              /\ cache'[CacheKey(lockFile[i])] # cache[CacheKey(lockFile[i])])
             => ~LockedCached(cache', lockFile[i])
       /\ \A p \in Procs :
             LET pr == procs[p]
                 L == LockedOf(lockFile, pr.entry)
                 L2 == LockedOf(lockFile', pr.entry)
             IN (/\ pr.op = "resolveAll"
                 /\ Stepped(p)
                 /\ L # <<>>
                 /\ L[1].version = pr.entry.version
                 /\ ~LockedCached(cache, L[1]))
                => /\ pr.pc = "ra_resolveRef" => ~NewResult(p)
                   /\ pr.pc = "ra_fetch" =>
                         /\ versionMeta(pr.manifest, pr.entry.id, pr.entry.version).ref = NoRef
                               => pr.effectiveRef = L[1].commit
                         /\ \/ NewError(p) # ""
                            \/ L2 # <<>> /\ LockedCached(cache', L2[1])]_vars

(***************************************************************************)
(* C21  Cache writes normalize before persisting and before hashing: after *)
(* writeToCache or writeDirectoryToCache, for every input, no persisted    *)
(* file contains a CR LF sequence, and isCached is true for the key with   *)
(* the sha256 the write returned.                                          *)
(***************************************************************************)
hasCRLF(s) == \E i \in 1..(Len(s) - 1) : s[i] = "\r" /\ s[i + 1] = "\n"

C21_WriteNormalizes ==
    LET key == cacheWrite.key
    IN /\ cacheWrite.op = "writeToCache" =>
             /\ \A f \in FileIn(cache[key], IdFile(key[2])) : ~hasCRLF(f.content)
             /\ isCached(cache[key], key[2], "prompt", cacheWrite.sha256)
       /\ cacheWrite.op = "writeDirectoryToCache" =>
             /\ \A f \in cache[key] : ~hasCRLF(f.content)
             /\ isCached(cache[key], key[2], "skill", cacheWrite.sha256)

(***************************************************************************)
(* C22  Platform-independent hashing: contents that differ only in using   *)
(* CRLF or LF for their line endings have the same sha256, as a single     *)
(* file and as the files of a directory payload; so a locked version       *)
(* refetched with the other line-ending convention passes the integrity    *)
(* gate.                                                                   *)
(***************************************************************************)
RECURSIVE EndingVariants(_)
\* the texts that are t with each of its LF written either as LF or as CR LF
EndingVariants(t) ==
    IF t = <<>> THEN {<<>>}
    ELSE IF t[1] = "\n"
         THEN {<<"\n">> \o r : r \in EndingVariants(Tail(t))}
              \cup {<<"\r", "\n">> \o r : r \in EndingVariants(Tail(t))}
         ELSE {<<t[1]>> \o r : r \in EndingVariants(Tail(t))}
\* the texts that differ from c in the convention of their line endings only
Twins(c) ==
    UNION {EndingVariants(t) : t \in {u \in Texts : ~hasCRLF(u) /\ c \in EndingVariants(u)}}
RECURSIVE PayloadTwins(_)
PayloadTwins(files) ==
    IF files = {} THEN {{}}
    ELSE LET f == CHOOSE x \in files : TRUE
         IN {{File(f.path, v)} \cup g : v \in Twins(f.content), g \in PayloadTwins(files \ {f})}
LockedWith(key, sha256) == <<LockedAsset(key[2], key[3], key[1], "c1", sha256, NoManifest, 1)>>

C22_PlatformIndependentHash ==
    LET key == cacheWrite.key
    IN /\ cacheWrite.op = "writeToCache" =>
             \A v \in Twins(cacheWrite.content) :
                 /\ computeHashFromString(v) = computeHashFromString(cacheWrite.content)
                 /\ writeToCache({}, key[2], v).sha256 = cacheWrite.sha256
                 /\ ~integrityMismatch(LockedWith(key, cacheWrite.sha256),
                                       writeToCache(cache[key], key[2], v).sha256, FALSE)
       /\ cacheWrite.op = "writeDirectoryToCache" =>
             \A g \in PayloadTwins(cacheWrite.files) :
                 /\ computeDirectoryHash(g) = computeDirectoryHash(cacheWrite.files)
                 /\ ~integrityMismatch(LockedWith(key, cacheWrite.sha256),
                                       writeDirectoryToCache(cache[key], g).sha256, FALSE)

\* a payload with a CRLF file has been written, and a single file whose text has a
\* CRLF twin is in the cache
C22_Witness ==
    /\ cacheWrite.op = "writeDirectoryToCache"
    /\ \E g \in PayloadTwins(cacheWrite.files) : g # cacheWrite.files
    /\ \E f \in cache[FileKey] : \E v \in Twins(f.content) : hasCRLF(v)

(***************************************************************************)
(* C23  Fresh install end state: a successful install of a prompt asset on *)
(* a declaration that does not contain it returns the selected version and *)
(* the fetched content; afterwards the cache file <alias>/<id>/<version>/  *)
(* <id>.md holds the LF-normalized text, the Ledger holds exactly one      *)
(* entry for (id, alias) with that version, the resolved commit and the    *)
(* hash of the normalized text, the declaration holds the entry, the       *)
(* default mapping is a symlink to the cache file and .gitignore lists it. *)
(***************************************************************************)
C23_Case(p) ==
    /\ procs[p].op = "install"
    /\ procs[p].pc # "idle"
    /\ procs'[p].pc = "idle"
    /\ procs'[p].out.status = "resolved"
    /\ manifestKind(procs[p].manifest, procs[p].assetId) = "prompt"
    /\ \A i \in 1..Len(procs[p].preConfig.assets) :
          procs[p].preConfig.assets[i].id # procs[p].assetId

C23_FreshInstall ==
    [][\A p \in Procs : C23_Case(p) =>
          LET pr == procs[p]
              r == procs'[p].out.asset
              id == pr.assetId
              text == fetchFile(versionMeta(pr.manifest, id, r.version).path, pr.effectiveRef, head).content
              mapping == getDefaultMapping("prompt", id)
              entries == SelectSeq(lockFile', LAMBDA a : SameKey(a, id, r.source))
          IN /\ r.id = id
             /\ <<r.version>> = selectVersion(manifestVersions(pr.manifest, id), pr.versionRange)
             /\ r.content = text
             /\ configFile'.sources[r.source].url = pr.url
             /\ FileIn(cache'[<<r.source, id, r.version>>], IdFile(id))
                    = {File(IdFile(id), Normalize(text))}
             /\ Len(entries) = 1
             /\ entries[1].version = r.version
             /\ entries[1].commit = pr.commit
             /\ r.commit = pr.commit
             /\ entries[1].sha256 = computeHashFromString(Normalize(text))
             /\ r.sha256 = entries[1].sha256
             /\ \E i \in 1..Len(configFile'.assets) :
                   configFile'.assets[i] = AssetEntry(id, r.source, r.version, mapping)
             /\ Link(mapping, getAssetPath(r.source, id, r.version, "prompt")) \in workspace'.links
             /\ mapping \in workspace'.gitignore]_vars

\* a fresh install of the prompt has returned content that came with CRLF line endings
C23_Witness ==
    \E p \in Procs :
        /\ Idle(p)
        /\ procs[p].out.op = "install"
        /\ procs[p].out.status = "resolved"
        /\ procs[p].out.asset.id = "a"
        /\ hasCRLF(procs[p].out.asset.content)
        /\ \A i \in 1..Len(procs[p].out.preConfig.assets) :
              procs[p].out.preConfig.assets[i].id # "a"

(***************************************************************************)
(* C24  During one resolveAll run, for a source whose declared assets all  *)
(* require the same manifest ref, the manifest of that source is fetched   *)
(* at most once: no manifest fetch is answered for an asset when an        *)
(* earlier asset of the same source was already resolved in this run.      *)
(***************************************************************************)
\* the declared assets of a source all require the same manifest ref
SameManifestRef(pr, source) ==
    \A i, j \in 1..Len(pr.queue) :
        (pr.queue[i].source = source /\ pr.queue[j].source = source)
        => manifestRefFor(pr.lockfile0, pr.queue[i]) = manifestRefFor(pr.lockfile0, pr.queue[j])

C24_ManifestFetchedOnce ==
    [][\A p \in Procs :
          LET pr == procs[p]
          IN (/\ pr.op = "resolveAll"
              /\ pr.pc = "r_fetchManifest"
              /\ Stepped(p)
              /\ NewError(p) \notin {"Transport", "NotFound"}
              /\ SameManifestRef(pr, pr.entry.source))
             => ~\E k \in 1..Len(pr.results) : pr.results[k].source = pr.entry.source]_vars

(***************************************************************************)
(* C25  Upgrading the declared version: when the declared version differs  *)
(* from the version the Ledger records for (id, source), resolveAll        *)
(* resolves the declared version against 'main', and, the version being    *)
(* published and the host and the projection working, succeeds and         *)
(* overwrites the Ledger entry with the new version, commit and hash.      *)
(***************************************************************************)
C25_Case(p) ==
    LET pr == procs[p]
        L == LockedOf(lockFile, pr.entry)
    IN /\ pr.op = "resolveAll"
       /\ pr.pc \in {"r_fetchManifest", "ra_resolveRef", "ra_fetch"}
       /\ Stepped(p)
       /\ L # <<>>
       /\ L[1].version # pr.entry.version

C25_UpgradeDeclaredVersion ==
    [][\A p \in Procs : C25_Case(p) =>
          LET pr == procs[p]
              L2 == LockedOf(lockFile', pr.entry)
          IN /\ pr.manifestRef = "main"
             /\ (/\ AssetCompletes(p)
                 /\ NewError(p) \notin EnvFailure \cup {"NotFound", "AssetNotFound",
                                          "VersionNotFound", "RefResolution", "MissingSkillEntry"})
                => /\ NewResult(p)
                   /\ L2 # <<>>
                   /\ L2[1].version = pr.entry.version
                   /\ L2[1].commit = TheResult(p).commit
                   /\ L2[1].sha256 = TheResult(p).sha256]_vars

(***************************************************************************)
(* C26  ensureSource, and therefore install, never changes a source that   *)
(* is already registered: no step changes the url or the provider of an    *)
(* alias the declaration defines, also when the URL being installed from   *)
(* derives that alias.                                                     *)
(***************************************************************************)
C26_RegisteredSourceKept ==
    [][\A al \in Aliases :
          configFile.sources[al] # NoSource => configFile'.sources[al] = configFile.sources[al]]_vars

(***************************************************************************)
(* C29  After a forced install of an asset id succeeds, the declaration    *)
(* contains exactly one entry with that id, also when the existing entry   *)
(* was declared under another alias than the one of the install URL.       *)
(***************************************************************************)
EntriesOf(config, id) == {i \in 1..Len(config.assets) : config.assets[i].id = id}

C29_ForcedInstallReplaces ==
    \A p \in Procs :
        (/\ Idle(p)
         /\ procs[p].out.op = "install"
         /\ procs[p].out.force
         /\ procs[p].out.status = "resolved")
        => Cardinality(EntriesOf(configFile, procs[p].out.assetId)) = 1

(***************************************************************************)
(* C27  When two install calls for different assets run interleaved and    *)
(* both succeed, the persisted declaration contains the entries of both    *)
(* and the sources of both.                                                *)
(***************************************************************************)
C27_BothInstallsDeclared ==
    (/\ AllIdle
     /\ \A p \in Procs : procs[p].out.op = "install" /\ procs[p].out.status = "resolved"
     /\ procs[1].out.asset.id # procs[2].out.asset.id)
    => \A p \in Procs :
          LET r == procs[p].out.asset
          IN /\ configFile.sources[r.source] # NoSource
             /\ \E i \in 1..Len(configFile.assets) :
                   configFile.assets[i] = AssetEntry(r.id, r.source, r.version, r.mapping)

(***************************************************************************)
(* C28  The Replace flow installs what was offered: when the non-forced    *)
(* install reported a conflict with selectedVersion s and the user chose   *)
(* Replace, the forced install that follows installs exactly version s,    *)
(* whatever happened to the remote manifest in between.                    *)
(***************************************************************************)
C28_ReplaceInstallsOffered ==
    (/\ flow.stage = "replace"
     /\ Idle(1)
     /\ procs[1].out.op = "install"
     /\ procs[1].out.force
     /\ procs[1].out.status = "resolved")
    => procs[1].out.asset.version = flow.offered

(***************************************************************************)
(* C30  For every ResolvedAsset returned by install or resolveAll, content *)
(* equals the bytes the cache holds for the asset at that moment (the      *)
(* single file, or SKILL.md for a skill) and sha256 is the hash of the     *)
(* cached bytes, on the fast path and on the slow path.                    *)
(***************************************************************************)
C30_Returned(p) ==
    IF procs[p].op = "install"
    THEN IF procs[p].pc # "idle" /\ procs'[p].pc = "idle" /\ procs'[p].out.status = "resolved"
         THEN {procs'[p].out.asset} ELSE {}
    ELSE IF procs[p].op = "resolveAll" /\ NewResult(p) THEN {TheResult(p)} ELSE {}

C30_ContentIsCachedBytes ==
    [][\A p \in Procs : \A r \in C30_Returned(p) :
          LET kind == manifestKind(procs[p].manifest, r.id)
              dir == cache'[<<r.source, r.id, r.version>>]
          IN /\ r.content = readFromCache(dir, r.id, kind)
             /\ r.sha256 = computeHash(dir, r.id, kind)]_vars

(***************************************************************************)
(* C31  A checkpoint freezes a version at a commit that contains it:       *)
(* whenever a version of the manifest carries a commit as its ref, the     *)
(* manifest committed at that commit declares the version, also when the   *)
(* version was published after that commit and never committed.            *)
(***************************************************************************)
C31_CheckpointContainsVersion ==
    \A r \in publisher.file :
        (r.ref # NoRef /\ IsCommitName(r.ref))
        => /\ CommitIdx(r.ref) <= Len(publisher.committed)
           /\ manifestHasVersion(publisher.committed[CommitIdx(r.ref)], r.id, r.version)

(***************************************************************************)
(* C32  Checkpoint target: when publish succeeds and the head commit is    *)
(* available, and some SemVer-valid existing version of the asset has no   *)
(* ref, then afterwards the greatest such version has ref = head commit,   *)
(* also when a greater version that is already pinned exists.              *)
(***************************************************************************)
C32_CheckpointTarget ==
    LET out == publisher.out
        open == {r.version : r \in {x \in Unpinned(out.file, out.assetId) : valid(x.version)}}
    IN (out.status = "ok" /\ out.gitOK /\ open # {})
       => versionMeta(publisher.file, out.assetId, SemverMax(open)).ref = out.HEAD

(***************************************************************************)
(* C33  Ref resolution strategy: the commit resolveAsset obtains is the    *)
(* one named by the manifest version's own ref whenever that ref is        *)
(* present, whatever manifest ref was passed in and whatever the Ledger    *)
(* holds; otherwise it is the one named by the manifest ref in use for the *)
(* call; nothing else (no template-derived tag) is ever resolved.          *)
(***************************************************************************)
C33_ManifestRefInUse(pr) == IF pr.op = "install" THEN pr.registryCommit ELSE pr.manifestRef

C33_Strategy(pr) ==
    LET vm == versionMeta(pr.manifest, pr.entry.id, pr.entry.version)
    IN IF vm.ref # NoRef THEN vm.ref ELSE C33_ManifestRefInUse(pr)

C34_Fetched(pr) ==
    fetchDirectory(versionMeta(pr.manifest, pr.entry.id, pr.entry.version).path,
                   pr.effectiveRef, head)

C34_HasSkillFile(files) == \E f \in files : f.path \in {"SKILL.md", "Skill.MD", "skill.md"}

C34_FailureOf(p) ==
    IF procs[p].op = "install"
    THEN IF procs'[p].pc = "idle" /\ procs'[p].out.status = "error" THEN procs'[p].out.error ELSE ""
    ELSE NewError(p)

C34_SkillFetch(p) ==
    /\ procs[p].pc = "ra_fetch"
    /\ Stepped(p)
    /\ manifestKind(procs[p].manifest, procs[p].entry.id) = "skill"
    /\ C34_Fetched(procs[p]).ok

C34_SkillNeedsEntry ==
    [][\A p \in Procs :
          C34_SkillFetch(p) =>
             LET key == CacheKey(procs[p].entry)
                 files == C34_Fetched(procs[p]).files
             IN IF ~C34_HasSkillFile(files)
                THEN /\ C34_FailureOf(p) \in {"MissingSkillEntry", "Transport"}
                     /\ cache'[key] = cache[key]
                     /\ lockFile' = lockFile
                ELSE C34_FailureOf(p) # "Transport"
                     => /\ isCached(cache'[key], procs[p].entry.id, "skill", <<>>)
                        /\ isCached(cache'[key], procs[p].entry.id, "skill",
                                    computeDirectoryHash(cache'[key]))
                        /\ C34_FailureOf(p) # "MissingSkillEntry"]_vars

\* a skill whose directory lost its SKILL.md has just failed with MissingSkillEntry while
\* an earlier, well-formed payload of the same key is cached and recorded in the Ledger
C34_Witness ==
    \E p \in Procs :
        /\ procs[p].pc = "idle"
        /\ procs[p].out.status = "error"
        /\ procs[p].out.error = "MissingSkillEntry"
        /\ \E key \in CacheKeys :
              /\ key[2] = procs[p].out.assetId
              /\ cache[key] # {}
              /\ \E i \in 1..Len(lockFile) : lockFile[i].id = key[2]

(***************************************************************************)
(* C35  writeDirectoryToCache replaces the directory: afterwards the cache *)
(* directory of the key holds exactly the files of the new payload (each   *)
(* with its content as written), no file of the payload cached before      *)
(* survives, and the hash returned is the hash of the new payload's        *)
(* (relative path, normalised content) pairs alone: the same for every     *)
(* order of supply and for every directory that was there before.          *)
(***************************************************************************)
C35_Pairs(files) == {File(f.path, Normalize(f.content)) : f \in files}

C35_DirectoryReplaced ==
    LET key == cacheWrite.key
        new == C35_Pairs(cacheWrite.files)
    IN cacheWrite.op = "writeDirectoryToCache" =>
          /\ cache[key] = new
          /\ \A f \in cacheWrite.before : f \in cache[key] => f \in new
          /\ cacheWrite.sha256 = computeDirectoryHash(new)
          /\ \A seq \in Orderings(cacheWrite.files) :
                /\ writeFiles({}, seq) = cache[key]
                /\ computeDirectoryHash(writeFiles({}, seq)) = cacheWrite.sha256
          /\ \A g \in SkillPayloads :
                C35_Pairs(g) = new
                => writeDirectoryToCache(cacheWrite.before, g).sha256 = cacheWrite.sha256

\* a payload of one file has been written over a cached payload of two files
C35_Witness ==
    /\ cacheWrite.op = "writeDirectoryToCache"
    /\ Cardinality(cacheWrite.files) = 1
    /\ Cardinality(cacheWrite.before) = 2
    /\ \E f \in cacheWrite.before : f.path \notin {g.path : g \in cacheWrite.files}

(***************************************************************************)
(* C37  Ledger operations are key-local.  For every Ledger the engine      *)
(* produces and every entry e: upsert(e) leaves exactly one record with    *)
(* e's (id, source), equal to e, and the records of every other key as     *)
(* they were; a second upsert(e) changes nothing; find returns a record    *)
(* of the Ledger with the given key, or nothing when there is none;        *)
(* remove leaves no record with the key and all others as they were,       *)
(* and find for that key then returns nothing.                             *)
(***************************************************************************)
C37_Entries ==
    {LockedAsset(id, v, s, c, <<"sha256", "y">>, NoManifest, 0) :
        id \in Ids, v \in Versions, s \in {"src", "acme"}, c \in {"c1", "c2"}}

C37_Hits(L, e) == {i \in 1..Len(L) : L[i].id = e.id /\ L[i].source = e.source}
C37_Others(L, e) == SelectSeq(L, LAMBDA a : ~(a.id = e.id /\ a.source = e.source))

C37_KeyLocalLedger ==
    \A e \in C37_Entries :
        LET U == upsertAsset(lockFile, e)
            R == removeAsset(lockFile, e.id, e.source)
            found == findAsset(lockFile, e.id, e.source)
        IN /\ Cardinality(C37_Hits(U, e)) = 1
           /\ \A i \in C37_Hits(U, e) : U[i] = e
           /\ C37_Others(U, e) = C37_Others(lockFile, e)
           /\ upsertAsset(U, e) = U
           /\ findAsset(U, e.id, e.source) = <<e>>
           /\ IF C37_Hits(lockFile, e) = {} THEN found = <<>>
              ELSE /\ Len(found) = 1
                   /\ \E i \in C37_Hits(lockFile, e) : found[1] = lockFile[i]
           /\ C37_Hits(R, e) = {}
           /\ R = C37_Others(lockFile, e)
           /\ findAsset(R, e.id, e.source) = <<>>

\* the Ledger holds records of the same asset id under two sources
C37_Witness ==
    /\ Len(lockFile) >= 2
    /\ \E i, j \in 1..Len(lockFile) :
          /\ lockFile[i].id = lockFile[j].id
          /\ lockFile[i].source # lockFile[j].source

(***************************************************************************)
(* C38  The latest version listed is the latest version installed: for     *)
(* every set of versions an asset declares, when install with the          *)
(* specifier "latest" selects a version, it is the latestVersion that      *)
(* listRemote reports for the asset from the same manifest.                *)
(***************************************************************************)
C38_ListedIsInstalled ==
    (/\ selection.done
     /\ selection.versionRange = "latest"
     /\ selection.selected # <<>>
     /\ selection.latestVersion # "")
    => selection.selected = <<selection.latestVersion>>

(***************************************************************************)
(* Specification of install on a workspace that may have no declaration    *)
(* file yet                                                                *)
(***************************************************************************)
InitFresh ==
    /\ hist \in {H1, H2}
    /\ head = 1
    /\ configFile \in {NoConfig, FixtureConfig}
    /\ lockFile = <<>>
    /\ cache = [k \in CacheKeys |-> {}]
    /\ workspace = [links |-> {}, gitignore |-> {}]
    /\ procs = [p \in Procs |-> IdleProc(NoOut)]
    /\ nops = 0
    /\ forced = FALSE
    /\ since = [results |-> {}, changed |-> FALSE]
    /\ selection = NoSelection
    /\ publisher = NoPublisher
    /\ cacheWrite = NoWritten
    /\ flow = NoFlow
NextFresh ==
    \/ \E in \in InstallInputs : AllIdle /\ StartInstall(1, in[1], in[2], in[3], in[4])
    \/ ContinueInstall
    \/ Push
SpecFresh == InitFresh /\ [][NextFresh]_vars

(***************************************************************************)
(* C39  install creates the declaration: an install that started on a      *)
(* workspace without a declaration file, found the asset and a matching    *)
(* version in the manifest and met no failure of the remote or of the      *)
(* projection, ends resolved, and the declaration file then exists with    *)
(* the source registered and the asset declared; it never ends with the    *)
(* "config not found" error.                                               *)
(***************************************************************************)
C39_InstallCreatesDeclaration ==
    \A p \in Procs :
        LET out == procs[p].out
        IN (/\ procs[p].pc = "idle"
            /\ out.op = "install"
            /\ ~out.preConfig.exists
            /\ out.error \notin EnvFailure \cup {"NotFound", "RefResolution", "AssetNotFound",
                                                 "NoMatchingVersion", "MissingSkillEntry"})
           => /\ out.status = "resolved"
              /\ out.error # "ConfigNotLoaded"
              /\ configFile.exists
              /\ \E i \in 1..Len(configFile.assets) :
                    /\ configFile.assets[i].id = out.assetId
                    /\ configFile.sources[configFile.assets[i].source] # NoSource

(***************************************************************************)
(* Specification of resolveAll on its own, and the same under the          *)
(* assumption that every remote call eventually returns or fails           *)
(***************************************************************************)
\* the steps that continue a resolveAll call: the answer to the one remote call it awaits
ContinueResolveAll ==
    \/ \E net \in BOOLEAN : ResolveAllFetchManifest(1, net)
    \/ \E net, symOK \in BOOLEAN : ResolveAssetRef(1, net, symOK)
    \/ \E net, symOK \in BOOLEAN : ResolveAssetFetch(1, net, symOK)
InitResolveAll ==
    /\ hist \in {H1, H2}
    /\ head = 1
    /\ configFile \in {FixtureConfig, OneDeclared, CloneConfig}
    /\ lockFile = <<>>
    /\ cache = [k \in CacheKeys |-> {}]
    /\ workspace = [links |-> {}, gitignore |-> {}]
    /\ procs = [p \in Procs |-> IdleProc(NoOut)]
    /\ nops = 0
    /\ forced = FALSE
    /\ since = [results |-> {}, changed |-> FALSE]
    /\ selection = NoSelection
    /\ publisher = NoPublisher
    /\ cacheWrite = NoWritten
    /\ flow = NoFlow
NextResolveAll ==
    \/ AllIdle /\ StartResolveAll(1)
    \/ ContinueResolveAll
    \/ Push
SpecResolveAll == InitResolveAll /\ [][NextResolveAll]_vars
\* every await in resolveAll is on a remote call, and each of them returns or fails
FairResolveAll == SpecResolveAll /\ WF_vars(ContinueResolveAll)

(***************************************************************************)
(* C36  resolveAll is strictly sequential and terminates.  While it runs   *)
(* it awaits exactly one remote call, for the asset at its position in the *)
(* queue, every asset before that position has its outcome and no later    *)
(* one has; the step that ends an asset yields exactly one outcome for     *)
(* it, a result appended or an error reported, never both; a content fetch *)
(* is made at most once per asset and its answer ends the asset (no        *)
(* retry); the call returns with one outcome per declared asset; and,      *)
(* when every remote call eventually returns or fails, it returns.         *)
(***************************************************************************)
C36_Running(pr) == pr.op = "resolveAll" /\ pr.pc # "idle"

C36_Order(pc) ==
    CASE pc = "r_fetchManifest" -> 1
      [] pc = "ra_resolveRef" -> 2
      [] pc = "ra_fetch" -> 3
      [] OTHER -> 0

C36_OneAtATime ==
    \A p \in Procs :
        C36_Running(procs[p]) =>
           /\ C36_Order(procs[p].pc) > 0
           /\ procs[p].idx \in 1..Len(procs[p].queue)
           /\ procs[p].entry = procs[p].queue[procs[p].idx]
           /\ Len(procs[p].results) + Len(procs[p].errors) = procs[p].idx - 1
           /\ procs[p].fetches <= procs[p].idx - 1

C36_NewErrors(p) ==
    SubSeq(ErrorsOf(procs'[p]), Len(procs[p].errors) + 1, Len(ErrorsOf(procs'[p])))

C36_OneOutcome(p) ==
    LET pr == procs[p]
        after == procs'[p]
        ends == after.pc = "idle" \/ after.idx # pr.idx
        errs == C36_NewErrors(p)
        skipped == IF NewResult(p) THEN errs ELSE Tail(errs)
    IN /\ FetchesOf(after) \in {pr.fetches, pr.fetches + 1}
       /\ pr.pc = "ra_fetch" => (ends /\ FetchesOf(after) = pr.fetches + 1)
       /\ IF ends
          THEN /\ Len(ResultsOf(after)) \in {Len(pr.results), Len(pr.results) + 1}
               /\ NewResult(p) => TheResult(p).id = pr.entry.id
               /\ ~NewResult(p) => (errs # <<>> /\ errs[1].id = pr.entry.id)
               /\ \A i \in 1..Len(skipped) : skipped[i].error = "SourceNotDefined"
               /\ after.pc = "idle" =>
                     /\ after.out.status = "done"
                     /\ Len(after.out.results) + Len(after.out.errors) = Len(pr.queue)
                     /\ after.out.fetches <= Len(pr.queue)
          ELSE /\ after.results = pr.results
               /\ after.errors = pr.errors
               /\ after.entry = pr.entry
               /\ C36_Order(after.pc) > C36_Order(pr.pc)

C36_SequentialResolveAll ==
    /\ []C36_OneAtATime
    /\ [][\A p \in Procs : (C36_Running(procs[p]) /\ Stepped(p)) => C36_OneOutcome(p)]_vars
    /\ \A p \in Procs : C36_Running(procs[p]) ~> (procs[p].pc = "idle")

\* a resolveAll over two declared assets has returned with one of them resolved and the
\* other reported as an error, after one content fetch for each
C36_Witness ==
    \E p \in Procs :
        /\ procs[p].pc = "idle"
        /\ procs[p].out.op = "resolveAll"
        /\ procs[p].out.status = "done"
        /\ Len(procs[p].out.results) = 1
        /\ Len(procs[p].out.errors) = 1
        /\ procs[p].out.fetches = 2

====
